---------------------------- MODULE Spec2Model ----------------------------
(***************************************************************************)
(* A model of the statement pipeline of the financial analyser:            *)
(*   parser.py       StatementParser      (statement file -> transactions) *)
(*   categorizer.py  TransactionCategorizer (rule tier, learned tier)      *)
(*   analyzer.py     FinancialAnalyzer    (aggregates, recurrence,         *)
(*                                         anomalies, projection)          *)
(*   models.py       Transaction          (record and store)               *)
(*   routes.py       upload               (parse, categorize, save)        *)
(*                                                                         *)
(* Money is held as an integer number of hundredths (paise); a float that  *)
(* the code computes from such values is held as the exact rational.       *)
(* Text is a TLA+ string, read character by character with SubSeq.         *)
(***************************************************************************)
EXTENDS Integers, Sequences, FiniteSets, TLC

VARIABLES
    request,      \* the arguments of the call under way
    outcome,      \* what the last call returned or raised
    categorizer,  \* the TransactionCategorizer: vectorizer, model, model_ready
    artifacts,    \* the files vectorizer.pkl and model.pkl
    txns          \* the Transaction objects the calls work on

vars == <<request, outcome, categorizer, artifacts, txns>>

(***************************************************************************)
(* Python values that are not of the field's type.                         *)
(***************************************************************************)
\* None where a string is expected (category, description)
None == "<None>"
\* Transaction.id of a record the store has not numbered yet (id=None)
NoId == 0

(***************************************************************************)
(* Text helpers.                                                           *)
(***************************************************************************)
Digits == "0123456789"

IsDigit(c) == c \in {"0", "1", "2", "3", "4", "5", "6", "7", "8", "9"}

DigitVal(c) == (CHOOSE i \in 1..10 : SubSeq(Digits, i, i) = c) - 1

AllDigits(s) == Len(s) > 0 /\ \A i \in 1..Len(s) : IsDigit(SubSeq(s, i, i))

RECURSIVE ToNat(_)
ToNat(s) ==
    IF Len(s) = 0 THEN 0
    ELSE 10 * ToNat(SubSeq(s, 1, Len(s) - 1)) + DigitVal(SubSeq(s, Len(s), Len(s)))

\* the positions of character c in s, in increasing order
RECURSIVE PositionsFrom(_, _, _)
PositionsFrom(s, c, i) ==
    IF i > Len(s) THEN <<>>
    ELSE IF SubSeq(s, i, i) = c THEN <<i>> \o PositionsFrom(s, c, i + 1)
    ELSE PositionsFrom(s, c, i + 1)

Positions(s, c) == PositionsFrom(s, c, 1)

IsSpace(c) == c \in {" ", "\t", "\n"}

\* str.strip(): leading and trailing whitespace removed
RECURSIVE LStrip(_)
LStrip(s) ==
    IF Len(s) > 0 /\ IsSpace(SubSeq(s, 1, 1)) THEN LStrip(SubSeq(s, 2, Len(s))) ELSE s

RECURSIVE RStrip(_)
RStrip(s) ==
    IF Len(s) > 0 /\ IsSpace(SubSeq(s, Len(s), Len(s)))
    THEN RStrip(SubSeq(s, 1, Len(s) - 1)) ELSE s

Strip(s) == LStrip(RStrip(s))

\* zero-padded decimal of n in w digits (strftime's %Y, %m, %d)
RECURSIVE Pad(_, _)
Pad(n, w) ==
    IF w = 0 THEN ""
    ELSE LET u == (n % 10) + 1 IN Pad(n \div 10, w - 1) \o SubSeq(Digits, u, u)

MaxOf(S) == CHOOSE x \in S : \A y \in S : y <= x

MinOf(S) == CHOOSE x \in S : \A y \in S : x <= y

(***************************************************************************)
(* Calendar (datetime.datetime).                                           *)
(***************************************************************************)
IsLeap(y) == (y % 4 = 0 /\ y % 100 # 0) \/ y % 400 = 0

DaysInMonth(y, m) ==
    IF m = 2 THEN (IF IsLeap(y) THEN 29 ELSE 28)
    ELSE IF m \in {4, 6, 9, 11} THEN 30 ELSE 31

\* datetime(y, m, d) raises ValueError unless this holds
ValidDate(y, m, d) ==
    /\ y \in 1..9999
    /\ m \in 1..12
    /\ d \in 1..DaysInMonth(y, m)

\* the text %d accepts: 01..31, 1..9, or a day 1..9 after a space; the day it
\* denotes is checked against the month by ValidDate
DayText(ds) ==
    \/ AllDigits(ds) /\ Len(ds) \in {1, 2}
    \/ Len(ds) = 2 /\ SubSeq(ds, 1, 1) = " " /\ IsDigit(SubSeq(ds, 2, 2))

\* datetime.strptime(s, '%d<sep>%m<sep>%Y'): the date <<y, m, d>>, or <<>> when
\* strptime raises ValueError
Strptime(s, sep) ==
    LET p == Positions(s, sep) IN
    IF Len(p) # 2 THEN <<>>
    ELSE
        LET ds == SubSeq(s, 1, p[1] - 1)
            ms == SubSeq(s, p[1] + 1, p[2] - 1)
            ys == SubSeq(s, p[2] + 1, Len(s))
            parts == <<ys, ms, LStrip(ds)>>
            ymd == [k \in 1..3 |-> ToNat(parts[k])]
        IN  IF /\ \A k \in 1..3 : AllDigits(parts[k])
               /\ DayText(ds)
               /\ Len(ms) \in {1, 2}
               /\ Len(ys) = 4
               /\ ValidDate(ymd[1], ymd[2], ymd[3])
            THEN ymd
            ELSE <<>>

\* the C libraries the interpreter's strftime can rest on
Libcs == {"glibc", "msvcrt"}

\* decimal of n without padding
RECURSIVE Decimal(_)
Decimal(n) ==
    IF n < 10 THEN SubSeq(Digits, n + 1, n + 1)
    ELSE Decimal(n \div 10) \o SubSeq(Digits, (n % 10) + 1, (n % 10) + 1)

\* %Y: four digits for a year from 1000 on; below 1000 the C library decides,
\* glibc writing the year without padding. request.libc is the library of the
\* interpreter the call runs in.
YearText(y) ==
    IF y >= 1000 THEN Pad(y, 4)
    ELSE IF request.libc = "glibc" THEN Decimal(y)
    ELSE Pad(y, 4)

\* date.strftime('%Y-%m-%d')
Strftime(date) ==
    YearText(date[1]) \o "-" \o Pad(date[2], 2) \o "-" \o Pad(date[3], 2)

(***************************************************************************)
(* models.py: the Transaction record.                                      *)
(***************************************************************************)
\* a record that is born categorized
TransactionCategorized(user_id, date, description, amount, transaction_type, bank) ==
    [id |-> NoId, user_id |-> user_id, date |-> date, description |-> description,
     amount |-> amount, transaction_type |-> transaction_type, category |-> "other",
     is_recurring |-> FALSE, bank |-> bank]

\* Transaction(user_id=..., date=..., description=..., amount=...,
\* transaction_type=..., bank=...): id, category and is_recurring take the
\* constructor's defaults
Transaction(user_id, date, description, amount, transaction_type, bank) ==
    [id |-> NoId, user_id |-> user_id, date |-> date, description |-> description,
     amount |-> amount, transaction_type |-> transaction_type, category |-> None,
     is_recurring |-> FALSE, bank |-> bank]

(***************************************************************************)
(* parser.py, tabular mode.  A CSV file is its header (the column names)   *)
(* and its rows, each a function from column name to the field's text.     *)
(***************************************************************************)
\* the field texts pandas.read_csv turns into NaN (its default na_values)
NaValues == {"", "#N/A", "N/A", "NA", "NULL", "NaN", "n/a", "nan", "null"}

\* float(s) of a decimal literal: [ok |-> TRUE, v |-> the value in hundredths],
\* or ok = FALSE when float raises ValueError.  (Literals with an exponent or
\* more than two fractional digits are not among the inputs.)
ParseFloat(s0) ==
    LET s    == Strip(s0)
        neg  == Len(s) > 0 /\ SubSeq(s, 1, 1) = "-"
        sgn  == Len(s) > 0 /\ SubSeq(s, 1, 1) \in {"-", "+"}
        body == IF sgn THEN SubSeq(s, 2, Len(s)) ELSE s
        dot  == Positions(body, ".")
        ip   == IF Len(dot) = 1 THEN SubSeq(body, 1, dot[1] - 1) ELSE body
        fp   == IF Len(dot) = 1 THEN SubSeq(body, dot[1] + 1, Len(body)) ELSE ""
        ok   == /\ Len(dot) <= 1
                /\ Len(ip) + Len(fp) > 0
                /\ AllDigits(ip \o fp)
                /\ Len(fp) <= 2
        \* the digits read as hundredths
        mag  == ToNat(ip \o fp \o SubSeq("00", 1, 2 - Len(fp)))
    IN  IF ~ok THEN [ok |-> FALSE, v |-> 0]
        ELSE [ok |-> TRUE, v |-> IF neg THEN 0 - mag ELSE mag]

\* the number a numeric field is read as
AmountOfText(s) == ParseFloat(s).v

\* pd.read_csv's dtype inference: a column all of whose non-blank fields are
\* numbers becomes numeric, so that none of its values is a str
NumericColumn(csv, col) ==
    \A i \in 1..Len(csv.rows) :
        csv.rows[i][col] \in NaValues \/ ParseFloat(csv.rows[i][col]).ok

\* the value of row i in column col of the DataFrame: NaN, a number or a str
Cell(csv, i, col) ==
    LET s == csv.rows[i][col] IN
    IF s \in NaValues THEN [t |-> "nan"]
    ELSE IF NumericColumn(csv, col) THEN [t |-> "num", v |-> AmountOfText(s)]
    ELSE [t |-> "str", v |-> s]

\* df.rename(columns={old: new}) guarded by `if old in df.columns`: the column
\* of the file that is read under the name `name`, or None when there is none
\* (row[name] raises KeyError)
Column(csv, renames, name) ==
    LET olds == {o \in DOMAIN renames : renames[o] = name /\ o \in csv.columns} IN
    IF olds # {} THEN CHOOSE o \in olds : TRUE
    ELSE IF name \in csv.columns THEN name
    ELSE None

\* float(row[col]) if pd.notna(row[col]) and row[col] != '' else 0.0
AmountOf(c) ==
    CASE c.t \in {"nan", "missing"} -> [ok |-> TRUE, v |-> 0]
      [] c.t = "num" -> [ok |-> TRUE, v |-> c.v]
      [] c.t = "str" -> ParseFloat(c.v)

\* the four fields of row i the loop body reads, in the order <<Date, debit,
\* credit, Description>>; "missing" where row[name] raises KeyError
RowCells(csv, i, d) ==
    [k \in 1..4 |->
        LET col == Column(csv, d.renames, <<"Date", d.debit, d.credit, "Description">>[k])
        IN  IF col = None THEN [t |-> "missing"] ELSE Cell(csv, i, col)]

\* strptime of the Date field with each of the dialect's formats
RowDates(dv, seps) ==
    [k \in 1..Len(seps) |-> IF dv.t = "str" THEN Strptime(dv.v, seps[k]) ELSE <<>>]

\* the statements of the loop body in their order: the first that raises
\* decides the exception
RowOutcome(i, d, user_id, cells, dates, amts) ==
    LET hits  == {k \in 1..Len(dates) : dates[k] # <<>>}
        debit == amts[2].v
    IN
    CASE cells[1].t = "missing" -> [error |-> "KeyError", row |-> i]
      [] cells[1].t \in {"nan", "num"} -> [error |-> "TypeError", row |-> i]
      [] hits = {} -> [error |-> "ValueError", row |-> i]
      [] cells[2].t = "missing" -> [error |-> "KeyError", row |-> i]
      [] ~amts[2].ok -> [error |-> "ValueError", row |-> i]
      [] cells[3].t = "missing" -> [error |-> "KeyError", row |-> i]
      [] ~amts[3].ok -> [error |-> "ValueError", row |-> i]
      [] cells[4].t = "missing" -> [error |-> "KeyError", row |-> i]
      [] cells[4].t \in {"nan", "num"} -> [error |-> "AttributeError", row |-> i]
      [] OTHER ->
            [error |-> "",
             txn |-> Transaction(user_id, Strftime(dates[MinOf(hits)]), Strip(cells[4].v),
                                 IF debit > 0 THEN debit ELSE amts[3].v,
                                 IF debit > 0 THEN "debit" ELSE "credit", d.bank)]

RowParsed(i, d, user_id, cells) ==
    RowOutcome(i, d, user_id, cells, RowDates(cells[1], d.seps),
               [k \in 2..3 |-> AmountOf(cells[k])])

\* One iteration of `for _, row in df.iterrows()`: the Transaction appended, or
\* the exception raised.  d is the dialect: its bank, its renames, the names it
\* reads and its date formats (separators) in the order they are tried.
ParseCsvRow(csv, i, d, user_id) == RowParsed(i, d, user_id, RowCells(csv, i, d))

\* the loop over the rows: the list built so far is lost when a row raises
RECURSIVE ParseCsvRows(_, _, _, _, _)
AfterCsvRow(csv, i, d, user_id, transactions, r) ==
    IF r.error # "" THEN [error |-> r.error, row |-> i, transactions |-> <<>>]
    ELSE ParseCsvRows(csv, i + 1, d, user_id, Append(transactions, r.txn))

ParseCsvRows(csv, i, d, user_id, transactions) ==
    IF i > Len(csv.rows) THEN [error |-> "", row |-> 0, transactions |-> transactions]
    ELSE AfterCsvRow(csv, i, d, user_id, transactions, ParseCsvRow(csv, i, d, user_id))

NoRenames == [o \in {} |-> ""]

SbiDialect ==
    [bank |-> "sbi", renames |-> NoRenames, debit |-> "Debit", credit |-> "Credit",
     seps |-> <<"/">>]

HdfcDialect ==
    [bank |-> "hdfc",
     renames |-> ("Withdrawal Amt." :> "Withdrawal") @@ ("Deposit Amt." :> "Deposit")
                 @@ ("Narration" :> "Description"),
     debit |-> "Withdrawal", credit |-> "Deposit", seps |-> <<"/">>]

AxisDialect ==
    [bank |-> "axis",
     renames |-> ("Tran Date" :> "Date") @@ ("Dr Amount" :> "Debit")
                 @@ ("Cr Amount" :> "Credit") @@ ("Particulars" :> "Description"),
     debit |-> "Debit", credit |-> "Credit", seps |-> <<"-", "/">>]

parse_sbi_csv(content, user_id) == ParseCsvRows(content, 1, SbiDialect, user_id, <<>>)

parse_hdfc_csv(content, user_id) == ParseCsvRows(content, 1, HdfcDialect, user_id, <<>>)

parse_axis_csv(content, user_id) == ParseCsvRows(content, 1, AxisDialect, user_id, <<>>)

(***************************************************************************)
(* parser.py, free-text mode: re.findall of the dialect's pattern          *)
(*   (DATE)\s+(.*?)\s+(AMT)?\s+(AMT)?\s+(AMT)     AMT = \d+\.\d{2}         *)
(* on the text of the PDF (for sbi neither AMT is optional).  The matcher  *)
(* follows the backtracking order of re: a greedy \s+ tries its longest    *)
(* run first, an optional group tries to be present first, the lazy .*?    *)
(* tries its shortest text first.                                          *)
(***************************************************************************)
CharAt(text, p) == IF p >= 1 /\ p <= Len(text) THEN SubSeq(text, p, p) ELSE ""

\* \s : the length of the whitespace run at p
RECURSIVE SpaceRun(_, _)
SpaceRun(text, p) ==
    IF p <= Len(text) /\ IsSpace(CharAt(text, p)) THEN 1 + SpaceRun(text, p + 1) ELSE 0

RECURSIVE DigitRun(_, _)
DigitRun(text, p) ==
    IF p <= Len(text) /\ IsDigit(CharAt(text, p)) THEN 1 + DigitRun(text, p + 1) ELSE 0

\* \d+\.\d{2} at p: the length matched, 0 when it does not match
AmountAt(text, p) ==
    LET n == DigitRun(text, p) IN
    IF /\ n >= 1
       /\ CharAt(text, p + n) = "."
       /\ \A k \in 1..2 : IsDigit(CharAt(text, p + n + k))
    THEN n + 3 ELSE 0

\* \d{2}<sep>\d{2}<sep>\d{4} at p
DateAt(text, p, sep) ==
    /\ p + 9 <= Len(text)
    /\ \A k \in {0, 1, 3, 4, 6, 7, 8, 9} : IsDigit(CharAt(text, p + k))
    /\ \A k \in {2, 5} : CharAt(text, p + k) = sep

NoMatch == [ok |-> FALSE]

\* the pattern of a dialect, element by element
Pattern(sep, optional) ==
    <<[t |-> "date", sep |-> sep], [t |-> "ws"], [t |-> "lazy"], [t |-> "ws"],
      [t |-> "amt", opt |-> optional], [t |-> "ws"],
      [t |-> "amt", opt |-> optional], [t |-> "ws"],
      [t |-> "amt", opt |-> FALSE]>>

\* the first alternative element k tries at position p: the longest run for
\* \s+, the empty text (ending at p) for .*?, the group present for (AMT)?
FirstChoice(pat, k, text, p) ==
    IF k > Len(pat) THEN 0
    ELSE CASE pat[k].t = "ws"   -> SpaceRun(text, p)
           [] pat[k].t = "lazy" -> p
           [] pat[k].t = "amt"  -> 1
           [] pat[k].t = "date" -> 0

\* elements k.. of the pattern at position p, element k trying alternative c
\* and, when the rest does not match after it, its next alternative
RECURSIVE Match(_, _, _, _, _)
Match(pat, k, text, p, c) ==
    IF k > Len(pat) THEN [ok |-> TRUE, groups |-> <<>>, end |-> p]
    ELSE
        LET e == pat[k]
            \* where alternative c of the element ends; 0 when it does not match
            q == CASE e.t = "date" -> IF DateAt(text, p, e.sep) THEN p + 10 ELSE 0
                   [] e.t = "ws"   -> IF c >= 1 THEN p + c ELSE 0
                   [] e.t = "lazy" -> IF c = p \/ (c <= Len(text) + 1 /\ CharAt(text, c - 1) # "\n")
                                      THEN c ELSE 0
                   [] e.t = "amt"  -> IF c = 0 THEN p
                                      ELSE IF AmountAt(text, p) > 0 THEN p + AmountAt(text, p)
                                      ELSE 0
            r == IF q = 0 THEN NoMatch ELSE Match(pat, k + 1, text, q, FirstChoice(pat, k + 1, text, q))
            more == CASE e.t = "date" -> FALSE
                      [] e.t = "ws"   -> c > 1
                      [] e.t = "lazy" -> q # 0
                      [] e.t = "amt"  -> c = 1 /\ e.opt
            next == CASE e.t = "lazy" -> c + 1
                      [] OTHER -> c - 1
        IN  IF r.ok
            THEN [r EXCEPT !.groups = IF e.t = "ws" THEN @ ELSE <<SubSeq(text, p, q - 1)>> \o @]
            ELSE IF more THEN Match(pat, k, text, p, next)
            ELSE NoMatch

\* the whole pattern at position i
MatchAt(text, i, sep, optional) ==
    LET m == Match(Pattern(sep, optional), 1, text, i, 0) IN
    IF ~m.ok THEN NoMatch
    ELSE [ok |-> TRUE, date_str |-> m.groups[1], description |-> m.groups[2],
          first |-> m.groups[3], second |-> m.groups[4], end |-> m.end]

\* re.findall(pattern, content): the matches from position i on, left to right,
\* not overlapping
RECURSIVE FindAll(_, _, _, _)
FindAll(text, i, sep, optional) ==
    IF i > Len(text) THEN <<>>
    ELSE LET m == MatchAt(text, i, sep, optional) IN
         IF m.ok THEN <<m>> \o FindAll(text, m.end, sep, optional)
         ELSE FindAll(text, i + 1, sep, optional)

\* One iteration of `for match in matches`; d is the dialect
ParsePdfMatch(m, d, user_id) ==
    LET groups == <<m.first, m.second>>
        amts   == [k \in 1..2 |-> AmountOfText(IF groups[k] = "" THEN "0.00" ELSE groups[k])]
        dt     == Strptime(m.date_str, d.seps[1])
        debit  == amts[1]
        credit == amts[2]
    IN
    IF dt = <<>> THEN [error |-> "ValueError"]
    ELSE [error |-> "",
          txn |-> Transaction(user_id, Strftime(dt), Strip(m.description),
                              IF debit > 0 THEN debit ELSE credit,
                              IF debit > 0 THEN "debit" ELSE "credit", d.bank)]

RECURSIVE ParsePdfMatches(_, _, _, _, _)
AfterPdfMatch(matches, i, d, user_id, transactions, r) ==
    IF r.error # "" THEN [error |-> r.error, row |-> i, transactions |-> <<>>]
    ELSE ParsePdfMatches(matches, i + 1, d, user_id, Append(transactions, r.txn))

ParsePdfMatches(matches, i, d, user_id, transactions) ==
    IF i > Len(matches) THEN [error |-> "", row |-> 0, transactions |-> transactions]
    ELSE AfterPdfMatch(matches, i, d, user_id, transactions,
                       ParsePdfMatch(matches[i], d, user_id))

parse_sbi_pdf(content, user_id) ==
    ParsePdfMatches(FindAll(content, 1, "/", FALSE), 1, SbiDialect, user_id, <<>>)

parse_hdfc_pdf(content, user_id) ==
    ParsePdfMatches(FindAll(content, 1, "/", TRUE), 1, HdfcDialect, user_id, <<>>)

parse_axis_pdf(content, user_id) ==
    ParsePdfMatches(FindAll(content, 1, "-", TRUE), 1, AxisDialect, user_id, <<>>)

\* _parse_pdf: the text of the pages, each followed by a line break
RECURSIVE PdfText(_)
PdfText(pages) ==
    IF pages = <<>> THEN "" ELSE Head(pages) \o "\n" \o PdfText(Tail(pages))

(***************************************************************************)
(* parser.py: StatementParser.parse.                                       *)
(***************************************************************************)
\* str.endswith
EndsWith(s, suffix) ==
    Len(s) >= Len(suffix) /\ SubSeq(s, Len(s) - Len(suffix) + 1, Len(s)) = suffix

\* str.lower() on the letters bank names and descriptions are written in
LowerChar(c) ==
    LET up == "ABCDEFGHIJKLMNOPQRSTUVWXYZ"
        lo == "abcdefghijklmnopqrstuvwxyz"
        at == {i \in 1..26 : SubSeq(up, i, i) = c}
    IN  IF at = {} THEN c ELSE LET i == CHOOSE i \in at : TRUE IN SubSeq(lo, i, i)

RECURSIVE Lower(_)
Lower(s) ==
    IF Len(s) = 0 THEN "" ELSE LowerChar(SubSeq(s, 1, 1)) \o Lower(SubSeq(s, 2, Len(s)))

\* self.parsers
parsers == {"sbi", "hdfc", "axis"}

\* ', '.join(self.parsers.keys()): the keys in the order of the dict
SupportedBanks == "sbi, hdfc, axis"

\* a dispatch that takes the sbi routine for every bank
ParseCsvAsSbi(bank_name, content, user_id) == parse_sbi_csv(content, user_id)

\* self.parsers[bank_name](content, user_id, is_pdf=False)
ParseCsvDispatch(bank_name, content, user_id) ==
    CASE bank_name = "sbi"  -> parse_sbi_csv(content, user_id)
      [] bank_name = "hdfc" -> parse_hdfc_csv(content, user_id)
      [] bank_name = "axis" -> parse_axis_csv(content, user_id)

\* self.parsers[bank_name](text, user_id, is_pdf=True)
ParsePdfDispatch(bank_name, text, user_id) ==
    CASE bank_name = "sbi"  -> parse_sbi_pdf(text, user_id)
      [] bank_name = "hdfc" -> parse_hdfc_pdf(text, user_id)
      [] bank_name = "axis" -> parse_axis_pdf(text, user_id)

\* the path names no file: open and pdfplumber.open raise
NoFile == [missing |-> TRUE]

Raised(error) == [error |-> error, row |-> 0, transactions |-> <<>>]

\* _parse_pdf
ParsePdfFile(bank_name, user_id, file) ==
    IF file = NoFile THEN Raised("FileNotFoundError")
    ELSE ParsePdfDispatch(bank_name, PdfText(file.pages), user_id)

\* _parse_csv
ParseCsvFile(bank_name, user_id, file) ==
    IF file = NoFile THEN Raised("FileNotFoundError")
    ELSE ParseCsvDispatch(bank_name, file.csv, user_id)

\* a parse that opens the file before it looks at the bank name
ParseFileFirst(file_path, bank_name0, user_id, file) ==
    IF file = NoFile THEN Raised("FileNotFoundError")
    ELSE IF Lower(bank_name0) \notin parsers
    THEN Raised("ValueError: Unsupported bank: " \o Lower(bank_name0)
                \o ". Supported banks: " \o SupportedBanks)
    ELSE IF EndsWith(file_path, ".pdf")
    THEN ParsePdfFile(Lower(bank_name0), user_id, file)
    ELSE IF EndsWith(file_path, ".csv")
    THEN ParseCsvFile(Lower(bank_name0), user_id, file)
    ELSE Raised("ValueError: Unsupported file format. Only PDF and CSV are supported.")

\* parse(file_path, bank_name, user_id): what it returns (error = "") or raises
parse(file_path, bank_name0, user_id, file) ==
    LET bank_name == Lower(bank_name0) IN
    IF bank_name \notin parsers
    THEN Raised("ValueError: Unsupported bank: " \o bank_name
                \o ". Supported banks: " \o SupportedBanks)
    ELSE IF EndsWith(file_path, ".pdf")
    THEN ParsePdfFile(bank_name, user_id, file)
    ELSE IF EndsWith(file_path, ".csv")
    THEN ParseCsvFile(bank_name, user_id, file)
    ELSE Raised("ValueError: Unsupported file format. Only PDF and CSV are supported.")

(***************************************************************************)
(* The statements parse is applied to.                                     *)
(***************************************************************************)
\* most rows of a statement
MaxRows == 2

UserIds == {11, 22}

\* the header lines of the three banks' CSV exports (parser.py docstrings)
SbiHeader == [date |-> "Date", desc |-> "Description", debit |-> "Debit",
              credit |-> "Credit", balance |-> "Balance"]

HdfcHeader == [date |-> "Date", desc |-> "Narration", debit |-> "Withdrawal Amt.",
               credit |-> "Deposit Amt.", balance |-> "Closing Balance"]

AxisHeader == [date |-> "Tran Date", desc |-> "Particulars", debit |-> "Dr Amount",
               credit |-> "Cr Amount", balance |-> "Balance"]

HeaderOf(bank) ==
    CASE bank = "sbi" -> SbiHeader [] bank = "hdfc" -> HdfcHeader [] bank = "axis" -> AxisHeader

ColumnsOf(h) == {h.date, h.desc, h.debit, h.credit, h.balance}

CsvRow(h, date, desc, debit, credit) ==
    (h.date :> date) @@ (h.desc :> desc) @@ (h.debit :> debit) @@ (h.credit :> credit)
    @@ (h.balance :> "100.00")

\* a date in the format the bank's export writes
DateField(bank) == IF bank = "axis" THEN "05-04-2023" ELSE "05/04/2023"

DescFields == {" SALARY ", ""}

DebitFields == {"", "0.00", "2500.00", "-5.00"}

CreditFields == {"", "0.00", "50000.00"}

CsvRows(bank) ==
    {CsvRow(HeaderOf(bank), DateField(bank), ds, dr, cr) :
        ds \in DescFields, dr \in DebitFields, cr \in CreditFields}

SeqsUpTo(S, n) == UNION {[1..k -> S] : k \in 0..n}

CsvFiles(bank) ==
    {[csv |-> [columns |-> ColumnsOf(HeaderOf(bank)), rows |-> rows]] :
        rows \in SeqsUpTo(CsvRows(bank), MaxRows)}

\* a line of the text pdfplumber extracts from a statement page: the columns
\* of the table, one space apart
PdfLine(date, desc, first, second) ==
    date \o " " \o desc \o " " \o first \o " " \o second \o " 100.00\n"

PdfLines(bank) ==
    {PdfLine(DateField(bank), "ATM WDL", dr, cr) :
        dr \in {"0.00", "2500.00"}, cr \in {"0.00", "50000.00"}}

RECURSIVE Concat(_)
Concat(ss) == IF ss = <<>> THEN "" ELSE Head(ss) \o Concat(Tail(ss))

PdfFiles(bank) ==
    {[pages |-> <<"Account statement\n" \o Concat(lines)>>] :
        lines \in SeqsUpTo(PdfLines(bank), MaxRows)}

Pending == [status |-> "pending"]

\* statements whose rows differ in the date field and in the debit field: the
\* bank's format with and without leading zeros, a day the month does not
\* have, the other separator, another order, a year of three digits
DateFields == {"05/04/2023", "5/4/2023", "31/02/2023", "05-04-2023", "2023-04-05",
               "01/01/0999"}

DateRows(bank) ==
    {CsvRow(HeaderOf(bank), date, " SALARY ", debit, "") :
        date \in DateFields, debit \in {"2500.00", "abc"}}

DateCsvFiles(bank) ==
    {[csv |-> [columns |-> ColumnsOf(HeaderOf(bank)), rows |-> rows]] :
        rows \in SeqsUpTo(DateRows(bank), MaxRows)}

PdfDateFields == {"05/04/2023", "05-04-2023", "31/02/2023", "31-02-2023",
                  "01/01/0999", "01-01-0999"}

DatePdfFiles(fields) ==
    {[pages |-> <<"Account statement\n" \o Concat(lines)>>] :
        lines \in SeqsUpTo({PdfLine(date, "ATM WDL", "2500.00", "0.00") :
                               date \in fields}, MaxRows)}

\* the records of a statement page whose withdrawal and deposit are separate
\* columns: both amounts, the withdrawal only, the deposit only; and a line
\* that is no record.  A record with one amount is written with the place of
\* the missing one kept ("gap": two separators in a row) or without it
\* ("packed": the fields that exist, one space apart)
SparseRecords ==
    {[layout |-> l, first |-> a[1], second |-> a[2]] :
        l \in {"gap", "packed"},
        a \in {<<"2500.00", "0.00">>, <<"2500.00", "">>, <<"", "50000.00">>}}
    \cup {[layout |-> "none"]}

\* the line of the extracted text a record is
LineText(bank, l) ==
    IF l.layout = "none" THEN "Page 1 of 2\n"
    ELSE IF l.layout = "gap" THEN PdfLine(DateField(bank), "ATM WDL", l.first, l.second)
    ELSE DateField(bank) \o " ATM WDL " \o l.first
         \o (IF l.first # "" /\ l.second # "" THEN " " ELSE "") \o l.second \o " 100.00\n"

RECURSIVE LinesText(_, _)
LinesText(bank, ls) ==
    IF ls = <<>> THEN "" ELSE LineText(bank, Head(ls)) \o LinesText(bank, Tail(ls))

SparsePdfFile(bank, ls) == [pages |-> <<"Account statement\n" \o LinesText(bank, ls)>>]

SparsePdfFiles(bank) == {SparsePdfFile(bank, ls) : ls \in SeqsUpTo(SparseRecords, MaxRows)}

\* the bank names a caller can declare: the keys in other cases, a bank
\* without parser, none
BankNames == {"SBI", "Hdfc", "icici", ""}

FilePaths == {"statement.csv", "statement.pdf", "statement.CSV", "statement.txt"}

\* the bank whose export a file under a declared name is
ExportOf(bank_name) == IF Lower(bank_name) \in parsers THEN Lower(bank_name) ELSE "sbi"

OneRowCsv(bank) ==
    [csv |-> [columns |-> ColumnsOf(HeaderOf(bank)),
              rows |-> <<CsvRow(HeaderOf(bank), DateField(bank), " SALARY ", "",
                                "50000.00")>>]]

OnePagePdf(bank) ==
    [pages |-> <<PdfLine(DateField(bank), "ATM WDL", "2500.00", "0.00")>>]

\* the files a path can name: none, or a file of the kind of its extension
FilesAt(file_path, bank) ==
    {NoFile}
    \cup (IF EndsWith(file_path, ".pdf") THEN {} ELSE {OneRowCsv(bank)})
    \cup (IF EndsWith(file_path, ".csv") THEN {} ELSE {OnePagePdf(bank)})

(***************************************************************************)
(* Claims about parse.                                                     *)
(***************************************************************************)
Done == outcome.status = "done"

IsCsvRequest == EndsWith(request.file_path, ".csv")

\* the number in an amount field of the file: blank is zero
FieldAmount(s) == IF s \in NaValues THEN 0 ELSE ParseFloat(s).v

RowDebit(i) ==
    FieldAmount(request.file.csv.rows[i][HeaderOf(Lower(request.bank_name)).debit])

RowCredit(i) ==
    FieldAmount(request.file.csv.rows[i][HeaderOf(Lower(request.bank_name)).credit])

RowDateValid(i) ==
    LET bank == Lower(request.bank_name)
        s == request.file.csv.rows[i][HeaderOf(bank).date]
    IN  \/ Strptime(s, IF bank = "axis" THEN "-" ELSE "/") # <<>>
        \/ bank = "axis" /\ Strptime(s, "/") # <<>>

\* C1 (as stated): a CSV statement of a supported dialect whose rows each have
\* a valid date and a non-zero amount column yields one transaction per row,
\* in row order, with the amount and type of the non-zero column, the debit
\* column deciding when both are non-zero.
C1_OneTransactionPerRow ==
    (/\ Done
     /\ IsCsvRequest
     /\ request.file # NoFile
     /\ Lower(request.bank_name) \in parsers
     /\ \A i \in 1..Len(request.file.csv.rows) :
            RowDateValid(i) /\ (RowDebit(i) # 0 \/ RowCredit(i) # 0))
    => /\ outcome.error = ""
       /\ Len(outcome.transactions) = Len(request.file.csv.rows)
       /\ \A i \in 1..Len(request.file.csv.rows) :
            LET t == outcome.transactions[i] IN
            IF RowDebit(i) # 0
            THEN t.amount = RowDebit(i) /\ t.transaction_type = "debit"
            ELSE t.amount = RowCredit(i) /\ t.transaction_type = "credit"

\* C2 (as stated): every transaction parse returns, in tabular and in
\* free-text mode, has amount > 0.
C2_AmountPositive ==
    (Done /\ outcome.error = "")
    => \A i \in 1..Len(outcome.transactions) : outcome.transactions[i].amount > 0

(***************************************************************************)
(* categorizer.py: TransactionCategorizer.                                 *)
(***************************************************************************)
\* self.categories
categories == <<"food", "transportation", "shopping", "utilities", "entertainment",
                "health", "education", "travel", "housing", "income", "investment",
                "bills", "other">>

\* self.rules, in the insertion order of the dict, which is the order
\* `for category, patterns in self.rules.items()` visits
rules == <<
    [category |-> "food", patterns |-> <<
        "swiggy", "zomato", "uber eats", "dominos", "pizza",
        "restaurant", "cafe", "coffee", "food", "grocery",
        "supermarket", "kirana", "bigbasket", "milk", "vegetable">>],
    [category |-> "transportation", patterns |-> <<
        "uber", "ola", "cab", "taxi", "auto", "metro", "train", "bus",
        "petrol", "diesel", "fuel", "parking", "rapido">>],
    [category |-> "shopping", patterns |-> <<
        "amazon", "flipkart", "myntra", "ajio", "nykaa", "shop",
        "store", "mall", "market", "purchase", "buy", "retail">>],
    [category |-> "utilities", patterns |-> <<
        "electricity", "water", "gas", "bill", "recharge", "mobile",
        "phone", "internet", "broadband", "wifi", "postpaid",
        "prepaid", "dth", "utility", "jio", "airtel", "vi",
        "tata power", "bses", "mahanagar gas">>],
    [category |-> "entertainment", patterns |-> <<
        "movie", "netflix", "prime", "hotstar", "disney", "zee5",
        "sonyliv", "theatre", "cinema", "ticket", "concert", "show",
        "spotify", "gaana", "wynk", "music">>],
    [category |-> "health", patterns |-> <<
        "hospital", "doctor", "clinic", "medical", "medicine",
        "pharmacy", "health", "dental", "eye", "apollo", "max",
        "medplus", "netmeds", "pharmeasy", "1mg">>],
    [category |-> "education", patterns |-> <<
        "school", "college", "university", "course", "class",
        "tuition", "fee", "book", "stationery", "udemy", "coursera",
        "edx", "byju", "unacademy", "education">>],
    [category |-> "travel", patterns |-> <<
        "flight", "air", "indigo", "spicejet", "hotel", "resort",
        "booking", "makemytrip", "goibibo", "oyo", "travel", "tour",
        "holiday", "vacation", "irctc", "railway">>],
    [category |-> "housing", patterns |-> <<
        "rent", "maintenance", "society", "apartment", "flat",
        "house", "property", "loan", "emi", "mortgage", "realty">>],
    [category |-> "income", patterns |-> <<
        "salary", "income", "payment received", "stipend", "bonus",
        "interest", "dividend", "refund", "reimbursement", "credit">>],
    [category |-> "investment", patterns |-> <<
        "mutual fund", "share", "stock", "bond", "debenture", "fd",
        "fixed deposit", "gold", "zerodha", "upstox", "groww",
        "investment", "sip", "etf", "nps", "ppf">>],
    [category |-> "bills", patterns |-> <<
        "bill payment", "due", "invoice", "subscription", "insurance",
        "premium", "tax", "gst", "emi", "installment", "payment">>] >>

\* re.search(pattern, description) for a pattern without metacharacters (every
\* pattern of self.rules is one): the pattern occurs somewhere in the text
Search(pattern, description) ==
    \E i \in 1..(Len(description) - Len(pattern) + 1) :
        SubSeq(description, i, i + Len(pattern) - 1) = pattern

\* a scan in which the last category with a matching pattern wins
RECURSIVE RuleScanLast(_, _)
RuleScanLast(description, k) ==
    IF k > Len(rules) THEN None
    ELSE LET later == RuleScanLast(description, k + 1)
         IN  IF later # None THEN later
             ELSE IF \E j \in 1..Len(rules[k].patterns) :
                        Search(rules[k].patterns[j], description)
             THEN rules[k].category
             ELSE None

\* the loop over self.rules.items() at category k: the inner loop returns
\* the category as soon as one of its patterns is found
RECURSIVE RuleScan(_, _)
RuleScan(description, k) ==
    IF k > Len(rules) THEN None
    ELSE IF \E j \in 1..Len(rules[k].patterns) : Search(rules[k].patterns[j], description)
    THEN rules[k].category
    ELSE RuleScan(description, k + 1)

\* _rule_based_categorize: a category, or None when no pattern matches
rule_based_categorize(description) ==
    IF description = None \/ description = "" THEN "other"
    ELSE RuleScan(Lower(description), 1)

IsLetter(c) ==
    c \in {"a", "b", "c", "d", "e", "f", "g", "h", "i", "j", "k", "l", "m",
           "n", "o", "p", "q", "r", "s", "t", "u", "v", "w", "x", "y", "z"}

\* word_tokenize of a text in which re.sub has put a space for every character
\* that is neither a letter nor whitespace: the maximal runs of letters
RECURSIVE Tokenize(_, _, _)
Tokenize(text, i, word) ==
    IF i > Len(text) THEN (IF word = "" THEN <<>> ELSE <<word>>)
    ELSE IF IsLetter(SubSeq(text, i, i)) THEN Tokenize(text, i + 1, word \o SubSeq(text, i, i))
    ELSE (IF word = "" THEN <<>> ELSE <<word>>) \o Tokenize(text, i + 1, "")

\* stopwords.words('english'): the members that statement descriptions use
stop_words == {"a", "an", "the", "to", "of", "for", "at", "by", "from", "in", "on", "and"}

RECURSIVE Join(_)
Join(tokens) ==
    IF Len(tokens) = 0 THEN ""
    ELSE IF Len(tokens) = 1 THEN tokens[1]
    ELSE tokens[1] \o " " \o Join(Tail(tokens))

\* _preprocess_text
preprocess_text(text) ==
    IF text = None \/ text = "" THEN ""
    ELSE Join(SelectSeq(Tokenize(Lower(text), 1, ""), LAMBDA w : w \notin stop_words))

\* the analyzer of TfidfVectorizer (token_pattern \b\w\w+\b): the words of two
\* or more characters of a preprocessed text
Analyze(doc) ==
    LET words == Tokenize(doc, 1, "")
    IN  {words[n] : n \in {m \in 1..Len(words) : Len(words[m]) >= 2}}

\* an attribute that holds None (self.vectorizer, self.model), a file that
\* does not exist (vectorizer.pkl, model.pkl)
NoObject == [kind |-> "None"]

\* TfidfVectorizer(max_features=5000) before fit
NewVectorizer == [kind |-> "TfidfVectorizer", fitted |-> FALSE, vocabulary |-> {}]

\* __init__ up to the call of _load_model
NewCategorizer == [vectorizer |-> NoObject, model |-> NoObject, model_ready |-> FALSE]

\* a file that exists and that pickle.load raises on: "corrupt", or "partial"
\* when open(..., 'wb') has truncated it and the dump has not finished
Unreadable(file) == file.kind \in {"corrupt", "partial"}

\* _load_model: both files are read when both exist; an exception of open or
\* pickle.load is caught, what was assigned before it stays, model_ready is False
load_model(c, files) ==
    IF files.vectorizer.kind # "None" /\ files.model.kind # "None"
    THEN IF Unreadable(files.vectorizer) THEN [c EXCEPT !.model_ready = FALSE]
         ELSE IF Unreadable(files.model)
         THEN [c EXCEPT !.vectorizer = files.vectorizer, !.model_ready = FALSE]
         ELSE [vectorizer |-> files.vectorizer, model |-> files.model, model_ready |-> TRUE]
    ELSE c

\* self.vectorizer.transform then self.model.predict on the words of the
\* preprocessed description
Predict(c, words) ==
    IF ~c.vectorizer.fitted THEN [error |-> "NotFittedError", category |-> None]
    ELSE IF Cardinality(c.vectorizer.vocabulary) # c.model.n_features
    THEN [error |-> "ValueError", category |-> None]
    ELSE [error |-> "", category |-> c.model.predict[words \cap c.vectorizer.vocabulary]]

\* _ml_based_categorize
ml_based_categorize(c, description) ==
    IF ~c.model_ready \/ description = None \/ description = ""
    THEN [error |-> "", category |-> "other"]
    ELSE Predict(c, Analyze(preprocess_text(description)))

\* categorize after the learned tier has answered or raised: an exception
\* leaves transaction.category as it was
AfterLearnedTier(transaction, r) ==
    IF r.error # "" THEN [error |-> r.error, transaction |-> transaction]
    ELSE [error |-> "", transaction |-> [transaction EXCEPT !.category = r.category]]

\* a categorize that forgets the learned tier
AfterRuleTierNoModel(c, transaction, category) ==
    IF category = None
    THEN [error |-> "", transaction |-> [transaction EXCEPT !.category = "other"]]
    ELSE [error |-> "", transaction |-> [transaction EXCEPT !.category = category]]

\* a categorize that returns a new Transaction built from the fields it knows
AfterRuleTierFresh(c, transaction, category) ==
    [error |-> "",
     transaction |-> [Transaction(transaction.user_id, transaction.date,
                                  transaction.description, transaction.amount,
                                  transaction.transaction_type, transaction.bank)
                        EXCEPT !.category = IF category = None THEN "other" ELSE category]]

\* categorize after the rule tier has answered with category
AfterRuleTier(c, transaction, category) ==
    IF category = None /\ c.model_ready
    THEN AfterLearnedTier(transaction, ml_based_categorize(c, transaction.description))
    ELSE IF category = None
    THEN [error |-> "", transaction |-> [transaction EXCEPT !.category = "other"]]
    ELSE [error |-> "", transaction |-> [transaction EXCEPT !.category = category]]

\* categorize: the transaction with its category set, or the exception raised
categorize(c, transaction) ==
    AfterRuleTier(c, transaction, rule_based_categorize(transaction.description))

\* bulk_categorize: the loop at position i; the objects before i are already
\* changed when a later one raises
RECURSIVE bulk_categorize_from(_, _, _)
AfterCategorize(c, list, i, r) ==
    IF r.error # "" THEN [error |-> r.error, at |-> i, transactions |-> list]
    ELSE bulk_categorize_from(c, [list EXCEPT ![i] = r.transaction], i + 1)

bulk_categorize_from(c, list, i) ==
    IF i > Len(list) THEN [error |-> "", at |-> 0, transactions |-> list]
    ELSE AfterCategorize(c, list, i, categorize(c, list[i]))

bulk_categorize(c, list) == bulk_categorize_from(c, list, 1)

\* train_model refuses to fit on fewer descriptions than this
MinDescriptions == 20

\* the dict `labels` of train_model, from Transaction.id to a category; the
\* default None behaves as the empty dict in `labels and transaction.id in labels`
NoLabels == <<>>

\* the category train_model pairs with a description
TrainingCategory(transaction, labels) ==
    IF transaction.id \in DOMAIN labels THEN labels[transaction.id]
    ELSE LET category == rule_based_categorize(transaction.description)
         IN  IF category = None THEN "other" ELSE category

\* the lists descriptions and categories that the first loop of train_model
\* builds, as one list of pairs
TrainingData(list, labels) ==
    LET described == SelectSeq(list, LAMBDA t : t.description # None /\ t.description # "")
    IN  [k \in 1..Len(described) |->
            [description |-> described[k].description,
             category |-> TrainingCategory(described[k], labels)]]

\* numpy.random.RandomState(42).permutation(n), counted from 1: the order in
\* which train_test_split(random_state=42) takes n samples
Permutation42(n) ==
    CASE n = 20 -> <<1, 18, 16, 2, 9, 6, 12, 4, 19, 17, 14, 3, 10, 20, 5, 13, 8, 11, 15, 7>>

\* train_test_split(..., test_size=0.2, random_state=42): the first
\* ceil(0.2 n) of the permutation are the test part, the others the training part
train_test_split(data) ==
    LET n      == Len(data)
        n_test == (n + 4) \div 5
        order  == Permutation42(n)
    IN  [train |-> [k \in 1..(n - n_test) |-> data[order[n_test + k]]],
         test  |-> [k \in 1..n_test |-> data[order[k]]]]

\* vectorizer.fit_transform(X_train): the vocabulary
Vocabulary(train) ==
    UNION {Analyze(preprocess_text(train[k].description)) : k \in 1..Len(train)}

\* model.classes_ after model.fit(X_train_tfidf, y_train)
Classes(train) == {train[k].category : k \in 1..Len(train)}

(***************************************************************************)
(* The categorizer at work: one TransactionCategorizer, the artifact files *)
(* and the stored transactions of a user.                                  *)
(***************************************************************************)
MaxTxns == 2

CatDescriptions == {"SWIGGY ORDER #123", "UBER EATS", "MOVIE TICKET", "NEFT XFER", ""}

\* the descriptions that reach the learned tier
MlDescriptions == {d \in CatDescriptions : rule_based_categorize(d) = None}

\* a row of the transactions table
StoredTransaction(id, description) ==
    [Transaction(11, "2024-01-05", description, 49900, "debit", "sbi") EXCEPT !.id = id]

\* the transactions handed to train_model: n rows that repeat base
Corpus(base, n) ==
    [k \in 1..n |-> StoredTransaction(k, base[((k - 1) % Len(base)) + 1])]

Corpora ==
    {Corpus(<<"SWIGGY ORDER #123", "NEFT XFER">>, MinDescriptions),
     Corpus(<<"SWIGGY ORDER #123", "NEFT XFER">>, MinDescriptions - 1),
     Corpus(<<"SWIGGY ORDER #123", "", "NEFT XFER">>, MinDescriptions),
     Corpus(<<"#123 45">>, MinDescriptions)}

\* the labels a caller supplies: none, or its own label for every id
LabelDicts == {NoLabels, [id \in 1..MinDescriptions |-> "groceries"]}

\* the values /api/update_category receives: any non-empty text
UpdateValues == {"other", "misc"}

\* train_model up to the fit: the training part's vocabulary and classes, or
\* `enough` false when there are fewer than MinDescriptions descriptions
Split(data) ==
    IF Len(data) < MinDescriptions THEN <<>> ELSE train_test_split(data).train

TrainingRun(train) ==
    [enough |-> train # <<>>, vocabulary |-> Vocabulary(train), classes |-> Classes(train)]

\* one run for every input the model hands to train_model
TrainingRuns ==
    {TrainingRun(Split(TrainingData(corpus, labels)))
        @@ [described |-> Len(TrainingData(corpus, labels))] :
        corpus \in Corpora, labels \in LabelDicts}

\* what the fitted forest answers for each input it can be given: one of its
\* classes, the same for the same features
FeatureSets(vocabulary) ==
    {Analyze(preprocess_text(d)) \cap vocabulary : d \in MlDescriptions}

Models(vocabulary, classes) ==
    {[kind |-> "RandomForestClassifier", n_features |-> Cardinality(vocabulary),
      classes |-> classes, predict |-> f] : f \in [FeatureSets(vocabulary) -> classes]}

NoArtifacts == [vectorizer |-> NoObject, model |-> NoObject]

InitCat ==
    /\ request = [op |-> "none"]
    /\ outcome = [op |-> "none", error |-> ""]
    /\ artifacts = NoArtifacts
    /\ categorizer = load_model(NewCategorizer, NoArtifacts)
    /\ txns \in {[k \in 1..MaxTxns |-> StoredTransaction(k, d[k])] :
                    d \in [1..MaxTxns -> CatDescriptions]}

\* TransactionCategorizer(): a new instance reads the artifact files
Construct ==
    /\ categorizer' = load_model(NewCategorizer, artifacts)
    /\ request' = [op |-> "TransactionCategorizer"]
    /\ outcome' = [op |-> "TransactionCategorizer", error |-> ""]
    /\ UNCHANGED <<artifacts, txns>>

\* categorize(transaction) on one of the objects
Categorized(i, r) ==
    /\ txns' = [txns EXCEPT ![i] = r.transaction]
    /\ request' = [op |-> "categorize", index |-> i]
    /\ outcome' = [op |-> "categorize", error |-> r.error]
    /\ UNCHANGED <<categorizer, artifacts>>

Categorize == \E i \in 1..Len(txns) : Categorized(i, categorize(categorizer, txns[i]))

\* bulk_categorize(transactions) on all of them
BulkCategorized(r) ==
    /\ txns' = r.transactions
    /\ request' = [op |-> "bulk_categorize"]
    /\ outcome' = [op |-> "bulk_categorize", error |-> r.error, at |-> r.at]
    /\ UNCHANGED <<categorizer, artifacts>>

BulkCategorize == BulkCategorized(bulk_categorize(categorizer, txns))

\* a train_model that clears the attributes before it counts the descriptions
FitCleared(run) ==
    IF ~run.enough
    THEN /\ outcome' = [op |-> "train_model", error |-> "", value |-> FALSE]
         /\ categorizer' = NewCategorizer
         /\ UNCHANGED artifacts
    ELSE IF run.vocabulary = {}
    THEN /\ categorizer' = [categorizer EXCEPT !.vectorizer = NewVectorizer]
         /\ outcome' = [op |-> "train_model", error |-> "ValueError", value |-> FALSE]
         /\ UNCHANGED artifacts
    ELSE \E model \in Models(run.vocabulary, run.classes) :
            LET vectorizer == [kind |-> "TfidfVectorizer", fitted |-> TRUE,
                               vocabulary |-> run.vocabulary]
            IN  /\ categorizer' = [vectorizer |-> vectorizer, model |-> model,
                                   model_ready |-> TRUE]
                /\ artifacts' = [vectorizer |-> vectorizer, model |-> model]
                /\ outcome' = [op |-> "train_model", error |-> "", value |-> TRUE]

\* train_model from the size test on: False below MinDescriptions; else the
\* new vectorizer is assigned before it is fitted, fit_transform raises on an
\* empty vocabulary, and the files are written and model_ready set once the
\* forest is fitted
Fit(run) ==
    IF ~run.enough
    THEN /\ outcome' = [op |-> "train_model", error |-> "", value |-> FALSE]
         /\ UNCHANGED <<categorizer, artifacts>>
    ELSE IF run.vocabulary = {}
    THEN /\ categorizer' = [categorizer EXCEPT !.vectorizer = NewVectorizer]
         /\ outcome' = [op |-> "train_model", error |-> "ValueError", value |-> FALSE]
         /\ UNCHANGED artifacts
    ELSE \E model \in Models(run.vocabulary, run.classes) :
            LET vectorizer == [kind |-> "TfidfVectorizer", fitted |-> TRUE,
                               vocabulary |-> run.vocabulary]
            IN  /\ categorizer' = [vectorizer |-> vectorizer, model |-> model,
                                   model_ready |-> TRUE]
                /\ artifacts' = [vectorizer |-> vectorizer, model |-> model]
                /\ outcome' = [op |-> "train_model", error |-> "", value |-> TRUE]

\* train_model(transactions, labels)
TrainModel ==
    \E run \in TrainingRuns :
        /\ Fit(run)
        /\ request' = [op |-> "train_model", described |-> run.described]
        /\ UNCHANGED txns

\* Transaction.update_transaction_category(transaction_id, category), as
\* /api/update_category calls it: UPDATE ... WHERE id = ?
UpdateTransactionCategory ==
    \E transaction_id \in 1..(MaxTxns + 1), category \in UpdateValues :
        /\ txns' = [k \in DOMAIN txns |->
                        IF txns[k].id = transaction_id
                        THEN [txns[k] EXCEPT !.category = category] ELSE txns[k]]
        /\ request' = [op |-> "update_transaction_category",
                       transaction_id |-> transaction_id, category |-> category]
        /\ outcome' = [op |-> "update_transaction_category", error |-> ""]
        /\ UNCHANGED <<categorizer, artifacts>>

NextCat ==
    \/ Construct
    \/ Categorize
    \/ BulkCategorize
    \/ TrainModel
    \/ UpdateTransactionCategory

SpecCat == InitCat /\ [][NextCat]_vars

(***************************************************************************)
(* Claims about the categorizer.                                           *)
(***************************************************************************)
\* the order of the rule categories as the claims give it
RuleOrder == <<"food", "transportation", "shopping", "utilities", "entertainment",
               "health", "education", "travel", "housing", "income", "investment",
               "bills">>

\* the patterns listed under a category
PatternsOf(category) ==
    UNION {{rules[k].patterns[j] : j \in 1..Len(rules[k].patterns)} :
              k \in {n \in 1..Len(rules) : rules[n].category = category}}

\* the positions in RuleOrder of the categories one of whose patterns occurs
\* in the lower-cased description
MatchingIn(description) ==
    {n \in 1..Len(RuleOrder) :
        \E pattern \in PatternsOf(RuleOrder[n]) : Search(pattern, Lower(description))}

\* the same, tabulated for the descriptions of the stored transactions
Matching == [description \in CatDescriptions |-> MatchingIn(description)]

\* the objects the last categorize or bulk_categorize has assigned a category
Assigned ==
    CASE outcome.op = "categorize" -> IF outcome.error = "" THEN {request.index} ELSE {}
      [] outcome.op = "bulk_categorize" ->
            IF outcome.error = "" THEN DOMAIN txns ELSE 1..(outcome.at - 1)
      [] OTHER -> {}

\* what the model in use answers for a description
Prediction(description) ==
    categorizer.model.predict[Analyze(preprocess_text(description))
                                \cap categorizer.vectorizer.vocabulary]

\* C3: categorize takes the tiers in strict order: a description in which a
\* rule pattern occurs gets a category of the rule tier whether or not a model
\* is loaded; the model's prediction is assigned only when no pattern occurs
\* and a model is ready; when no pattern occurs and no model is ready the
\* category is 'other'.
C3_TiersInOrder ==
    \A i \in Assigned :
        LET t == txns[i]
            m == Matching[t.description]
        IN  /\ m # {} => t.category \in {RuleOrder[n] : n \in m}
            /\ (m = {} /\ ~categorizer.model_ready) => t.category = "other"
            /\ (m = {} /\ categorizer.model_ready) =>
                    t.category = IF t.description = "" THEN "other"
                                 ELSE Prediction(t.description)

\* a description with a rule match was categorized while a model was ready, and
\* one without a match got the model's answer
C3_Witness ==
    /\ outcome.op = "bulk_categorize" /\ outcome.error = ""
    /\ categorizer.model_ready
    /\ \E i, j \in DOMAIN txns :
        /\ txns[i].description = "SWIGGY ORDER #123" /\ txns[i].category = "food"
        /\ txns[j].description = "NEFT XFER" /\ txns[j].category = "food"

\* C4: the rule tier's result is the earliest category of RuleOrder with a
\* pattern occurring in the lower-cased description, whatever was categorized
\* before and whatever the position in bulk_categorize.
C4_EarliestCategoryWins ==
    \A i \in Assigned :
        Matching[txns[i].description] # {} =>
            txns[i].category = RuleOrder[MinOf(Matching[txns[i].description])]

\* "UBER EATS" (food and transportation) in second position after a
\* description that went to the model
C4_Witness ==
    /\ outcome.op = "bulk_categorize" /\ outcome.error = ""
    /\ Len(txns) >= 2
    /\ txns[1].description = "NEFT XFER" /\ txns[1].category = "groceries"
    /\ txns[2].description = "UBER EATS" /\ txns[2].category = "food"
    /\ Cardinality(Matching["UBER EATS"]) = 2

\* C5 (as stated): categorization never fails, and every category that is set
\* is one of the thirteen of self.categories, after any sequence of
\* train_model, categorize, bulk_categorize and update_transaction_category.
C5_CategoryInClosedSet ==
    /\ outcome.op \in {"categorize", "bulk_categorize"} => outcome.error = ""
    /\ \A i \in DOMAIN txns :
        txns[i].category # None =>
            txns[i].category \in {categories[n] : n \in 1..Len(categories)}

\* C22: train_model on fewer than MinDescriptions transactions with a
\* description returns False without raising and leaves the vectorizer, the
\* classifier, model_ready and the artifact files as they were.
C22_TooFewLeavesModel ==
    [][(request'.op = "train_model" /\ request'.described < MinDescriptions)
        => /\ outcome'.error = "" /\ outcome'.value = FALSE
           /\ categorizer' = categorizer
           /\ artifacts' = artifacts]_vars

\* train_model has refused a corpus of 19 descriptions and the model fitted
\* before is still the one categorize uses
C22_Witness ==
    /\ request.op = "train_model" /\ request.described = MinDescriptions - 1
    /\ outcome.value = FALSE /\ outcome.error = ""
    /\ categorizer.model_ready
    /\ categorizer.vectorizer.fitted
    /\ categorizer.model = artifacts.model

(***************************************************************************)
(* train_model statement by statement, next to a categorize on the same    *)
(* TransactionCategorizer and a _load_model of another instance on the     *)
(* same files vectorizer.pkl and model.pkl.  The class takes no lock and    *)
(* writes the files in place, so the statements of the three interleave     *)
(* freely.  request holds where each call stands, categorizer the object    *)
(* that is trained, outcome what the calls have returned and read.          *)
(***************************************************************************)
\* most calls of train_model in a run of the model
MaxRuns == 2

\* an object fitted by (or, for n = 0, before) the n-th call of train_model
OfRun(object, n) == object @@ [fitted |-> TRUE, run |-> n]

\* RandomForestClassifier(n_estimators=100, random_state=42) before fit
NewModel == [kind |-> "RandomForestClassifier", fitted |-> FALSE]

\* the inputs of train_model: too few descriptions, descriptions without a
\* word, descriptions with words
TrainInputs == {run \in TrainingRuns : run.classes # {"groceries"}}

FittedVectorizer(run, n) ==
    OfRun([kind |-> "TfidfVectorizer", vocabulary |-> run.vocabulary], n)

\* the artifact files an earlier process has left
ShippedRun == CHOOSE run \in TrainInputs : run.enough /\ run.vocabulary # {}

ShippedModel ==
    OfRun(CHOOSE m \in Models(ShippedRun.vocabulary, ShippedRun.classes) : TRUE, 0)

Corrupt == [kind |-> "corrupt"]

Partial == [kind |-> "partial"]

\* the vectorizer and the model are both fitted, by the same call
Paired(vectorizer, model) ==
    /\ vectorizer.kind = "TfidfVectorizer" /\ model.kind = "RandomForestClassifier"
    /\ vectorizer.fitted /\ model.fitted
    /\ vectorizer.run = model.run

Idle == [pc |-> "idle"]

\* the categorize under way: the description goes to the learned tier
NoRead == [vectorizer |-> NoObject, model |-> NoObject, error |-> "", category |-> None]

\* the other instance, before _load_model
NoLoad == NewCategorizer @@ [saw |-> ""]

InitTrain ==
    /\ artifacts \in [vectorizer : {NoObject, Corrupt, FittedVectorizer(ShippedRun, 0)},
                      model : {NoObject, Corrupt, ShippedModel}]
    /\ categorizer = load_model(NewCategorizer, artifacts)
    /\ request = [train |-> Idle, calls |-> 0, categorize |-> "call", load |-> "call"]
    /\ outcome = [train |-> "none", read |-> NoRead, loaded |-> NoLoad]
    /\ txns = <<StoredTransaction(1, "NEFT XFER")>>

\* train_model, lines 167-184: the descriptions are counted
TrainCall ==
    /\ request.train = Idle /\ request.calls < MaxRuns
    /\ \E run \in TrainInputs :
        /\ request' = [request EXCEPT !.calls = @ + 1,
                          !.train = IF run.enough THEN [pc |-> "vectorizer", run |-> run]
                                    ELSE Idle]
        /\ outcome' = [outcome EXCEPT !.train = IF run.enough THEN "running" ELSE "False"]
    /\ UNCHANGED <<categorizer, artifacts, txns>>

\* line 192: self.vectorizer = TfidfVectorizer(max_features=5000)
TrainNewVectorizer ==
    /\ request.train.pc = "vectorizer"
    /\ categorizer' = [categorizer EXCEPT !.vectorizer = NewVectorizer]
    /\ request' = [request EXCEPT !.train.pc = "fit_transform"]
    /\ UNCHANGED <<outcome, artifacts, txns>>

\* line 193: fit_transform raises ValueError on an empty vocabulary
TrainFitTransform ==
    /\ request.train.pc = "fit_transform"
    /\ IF request.train.run.vocabulary = {}
       THEN /\ request' = [request EXCEPT !.train = Idle]
            /\ outcome' = [outcome EXCEPT !.train = "ValueError"]
            /\ UNCHANGED categorizer
       ELSE /\ categorizer' = [categorizer EXCEPT
                                  !.vectorizer = FittedVectorizer(request.train.run,
                                                                  request.calls)]
            /\ request' = [request EXCEPT !.train.pc = "model"]
            /\ UNCHANGED outcome
    /\ UNCHANGED <<artifacts, txns>>

\* line 196: self.model = RandomForestClassifier(...)
TrainNewModel ==
    /\ request.train.pc = "model"
    /\ categorizer' = [categorizer EXCEPT !.model = NewModel]
    /\ request' = [request EXCEPT !.train.pc = "fit"]
    /\ UNCHANGED <<outcome, artifacts, txns>>

\* line 197: self.model.fit(X_train_tfidf, y_train)
TrainFit ==
    /\ request.train.pc = "fit"
    /\ \E model \in Models(request.train.run.vocabulary, request.train.run.classes) :
        categorizer' = [categorizer EXCEPT !.model = OfRun(model, request.calls)]
    /\ request' = [request EXCEPT !.train.pc = "open_vectorizer"]
    /\ UNCHANGED <<outcome, artifacts, txns>>

\* lines 202 and 204: open(name, 'wb') truncates the file
TrainOpen(name) ==
    /\ request.train.pc = "open_" \o name
    /\ artifacts' = [artifacts EXCEPT ![name] = Partial]
    /\ request' = [request EXCEPT !.train.pc = "dump_" \o name]
    /\ UNCHANGED <<outcome, categorizer, txns>>

\* lines 203 and 205: pickle.dump and the close of the file
TrainDump(name, then) ==
    /\ request.train.pc = "dump_" \o name
    /\ artifacts' = [artifacts EXCEPT ![name] = categorizer[name]]
    /\ request' = [request EXCEPT !.train.pc = then]
    /\ UNCHANGED <<outcome, categorizer, txns>>

TrainOpenVectorizer == TrainOpen("vectorizer")

TrainDumpVectorizer == TrainDump("vectorizer", "open_model")

TrainOpenModel == TrainOpen("model")

TrainDumpModel == TrainDump("model", "ready")

\* lines 207-208: self.model_ready = True; return True
TrainReady ==
    /\ request.train.pc = "ready"
    /\ categorizer' = [categorizer EXCEPT !.model_ready = TRUE]
    /\ request' = [request EXCEPT !.train = Idle]
    /\ outcome' = [outcome EXCEPT !.train = "True"]
    /\ UNCHANGED <<artifacts, txns>>

\* the categorize has returned or raised
Read(read) ==
    /\ request' = [request EXCEPT !.categorize = "done"]
    /\ outcome' = [outcome EXCEPT !.read = read]
    /\ txns' = IF read.error = "" THEN [txns EXCEPT ![1].category = read.category] ELSE txns

\* categorize, lines 139-144: no rule matches; self.model_ready is tested
CategorizeCall ==
    /\ request.categorize = "call"
    /\ IF categorizer.model_ready
       THEN request' = [request EXCEPT !.categorize = "ml"] /\ UNCHANGED <<outcome, txns>>
       ELSE Read([outcome.read EXCEPT !.category = "other"])
    /\ UNCHANGED <<categorizer, artifacts>>

\* _ml_based_categorize, line 123: self.model_ready is tested again
CategorizeMl ==
    /\ request.categorize = "ml"
    /\ IF categorizer.model_ready
       THEN request' = [request EXCEPT !.categorize = "transform"]
            /\ UNCHANGED <<outcome, txns>>
       ELSE Read([outcome.read EXCEPT !.category = "other"])
    /\ UNCHANGED <<categorizer, artifacts>>

\* line 128: self.vectorizer.transform
CategorizeTransform ==
    /\ request.categorize = "transform"
    /\ IF ~categorizer.vectorizer.fitted
       THEN Read([outcome.read EXCEPT !.vectorizer = categorizer.vectorizer,
                                      !.error = "NotFittedError"])
       ELSE /\ request' = [request EXCEPT !.categorize = "predict"]
            /\ outcome' = [outcome EXCEPT !.read.vectorizer = categorizer.vectorizer]
            /\ UNCHANGED txns
    /\ UNCHANGED <<categorizer, artifacts>>

\* line 130: self.model.predict on the features of the vectorizer read before
CategorizePredict ==
    /\ request.categorize = "predict"
    /\ LET read == [outcome.read EXCEPT !.model = categorizer.model]
           r    == IF ~read.model.fitted THEN [error |-> "NotFittedError", category |-> None]
                   ELSE Predict([vectorizer |-> read.vectorizer, model |-> read.model],
                                Analyze(preprocess_text(txns[1].description)))
       IN  Read([read EXCEPT !.error = r.error, !.category = r.category])
    /\ UNCHANGED <<categorizer, artifacts>>

\* the other instance's _load_model has returned
Loaded(loaded) ==
    /\ request' = [request EXCEPT !.load = "done"]
    /\ outcome' = [outcome EXCEPT !.loaded = loaded]

\* _load_model, line 152: both files exist
LoadExists ==
    /\ request.load = "call"
    /\ IF artifacts.vectorizer.kind # "None" /\ artifacts.model.kind # "None"
       THEN request' = [request EXCEPT !.load = "vectorizer"] /\ UNCHANGED outcome
       ELSE Loaded(outcome.loaded)
    /\ UNCHANGED <<categorizer, artifacts, txns>>

\* lines 153-156: one file is opened and unpickled
LoadFile(name, then) ==
    /\ request.load = name
    /\ IF Unreadable(artifacts[name])
       THEN Loaded([outcome.loaded EXCEPT !.saw = artifacts[name].kind])
       ELSE /\ request' = [request EXCEPT !.load = then]
            /\ outcome' = [outcome EXCEPT !.loaded[name] = artifacts[name]]
    /\ UNCHANGED <<categorizer, artifacts, txns>>

LoadVectorizer == LoadFile("vectorizer", "model")

LoadModel == LoadFile("model", "ready")

\* line 157: self.model_ready = True
LoadReady ==
    /\ request.load = "ready"
    /\ Loaded([outcome.loaded EXCEPT !.model_ready = TRUE])
    /\ UNCHANGED <<categorizer, artifacts, txns>>

NextTrain ==
    \/ TrainCall
    \/ TrainNewVectorizer
    \/ TrainFitTransform
    \/ TrainNewModel
    \/ TrainFit
    \/ TrainOpenVectorizer
    \/ TrainDumpVectorizer
    \/ TrainOpenModel
    \/ TrainDumpModel
    \/ TrainReady
    \/ CategorizeCall
    \/ CategorizeMl
    \/ CategorizeTransform
    \/ CategorizePredict
    \/ LoadExists
    \/ LoadVectorizer
    \/ LoadModel
    \/ LoadReady

SpecTrain == InitTrain /\ [][NextTrain]_vars

(***************************************************************************)
(* Claims about training.                                                  *)
(***************************************************************************)
\* C23 (as stated): after construction and after every train_model call,
\* whether it returned True, returned False or raised, the categorizer either
\* holds a vectorizer and a classifier fitted by the same training run or has
\* model_ready false.
C23_PairOrNothing ==
    request.train = Idle =>
        (categorizer.model_ready => Paired(categorizer.vectorizer, categorizer.model))

\* C24 (as stated): in every interleaving of train_model with a categorize on
\* the same categorizer and with a _load_model of another instance, no reader
\* reads a partially written file, and none reads a vectorizer of one training
\* run together with a classifier of another.
C24_ReadersNeverSeeHalf ==
    /\ outcome.loaded.saw # "partial"
    /\ outcome.loaded.model_ready => Paired(outcome.loaded.vectorizer, outcome.loaded.model)
    /\ outcome.read.model.kind # "None" => Paired(outcome.read.vectorizer, outcome.read.model)

(***************************************************************************)
(* routes.py: upload, the caller of parse.                                 *)
(***************************************************************************)
\* Transaction.save_transactions: one row per transaction, numbered by the
\* store, under the user_id given
save_transactions(store, list, user_id) ==
    store \o [k \in DOMAIN list |->
                [list[k] EXCEPT !.id = Len(store) + k, !.user_id = user_id]]

\* what upload leaves: the message flashed and the store
Flashed(flash, store) == [status |-> "uploaded", flash |-> flash, store |-> store]

\* upload after bulk_categorize has returned c or raised
AfterBulk(c, user_id, store) ==
    IF c.error # "" THEN Flashed("Error processing file: " \o c.error, store)
    ELSE Flashed("Successfully processed " \o Decimal(Len(c.transactions))
                    \o " transactions",
                 save_transactions(store, c.transactions, user_id))

\* upload after parse has returned r or raised: an exception of parse is
\* caught, flashed, and nothing is saved
AfterParse(r, files, user_id, store) ==
    IF r.error # "" THEN Flashed("Error processing file: " \o r.error, store)
    ELSE AfterBulk(bulk_categorize(load_model(NewCategorizer, files), r.transactions),
                   user_id, store)

\* the route upload on a POST: the form is checked, the file parsed,
\* categorized by a new TransactionCategorizer and saved
upload(filename, bank, user_id, file, files, store) ==
    IF file = NoFile THEN Flashed("No file part", store)
    ELSE IF filename = "" THEN Flashed("No selected file", store)
    ELSE IF bank = "" THEN Flashed("Please select a bank", store)
    ELSE IF ~(EndsWith(filename, ".pdf") \/ EndsWith(filename, ".csv"))
    THEN Flashed("Only PDF and CSV files are allowed", store)
    ELSE AfterParse(parse(filename, bank, user_id, file), files, user_id, store)

\* a statement, the bank declared for it and the user it belongs to, in an
\* interpreter on the C library libc
Statement(file_path, bank_name, user_id, file, libc) ==
    [file_path |-> file_path, bank_name |-> bank_name, user_id |-> user_id,
     file |-> file, libc |-> libc]

\* statements of the users `users`, exported by the declared bank
ExportedStatements(users) ==
    UNION {{Statement("statement.csv", b, u, f, "glibc") : u \in users, f \in CsvFiles(b)}
           \cup
           {Statement("statement.pdf", b, u, f, "glibc") : u \in users, f \in PdfFiles(b)} :
           b \in parsers}

\* statements under the bank names and paths a caller can give
DeclaredStatements ==
    UNION {{Statement(p, b, u, f, "glibc") : u \in UserIds, f \in FilesAt(p, ExportOf(b))} :
           b \in BankNames, p \in FilePaths}

\* statements with the dates of DateFields, on either C library (the library
\* shows in years below 1000 only)
DatedStatements(libcs) ==
    UNION {{Statement("statement.csv", b, 11, f, libc) : f \in DateCsvFiles(b)}
           \cup
           {Statement("statement.pdf", b, 11, f, libc) : f \in DatePdfFiles(PdfDateFields)} :
           b \in parsers, libc \in libcs}

\* statement pages of the banks `banks`, whose pattern lets an amount be
\* missing
SparseStatements(banks) ==
    UNION {{Statement("statement.pdf", b, 11, f, "glibc") : f \in SparsePdfFiles(b)} :
           b \in banks}

\* no artifact files and an empty store
InitParse ==
    /\ request \in ExportedStatements(UserIds) \cup DeclaredStatements
                   \cup DatedStatements(Libcs) \cup SparseStatements({"hdfc", "axis"})
    /\ outcome = Pending
    /\ categorizer = None
    /\ artifacts = NoArtifacts
    /\ txns = <<>>

\* one call of StatementParser.parse
Parse ==
    /\ outcome = Pending
    /\ outcome' = [status |-> "done"] @@
                  parse(request.file_path, request.bank_name, request.user_id, request.file)
    /\ UNCHANGED <<request, categorizer, artifacts, txns>>

\* one POST of the statement to upload
Uploaded(r) ==
    /\ outcome = Pending
    /\ outcome' = [status |-> r.status, flash |-> r.flash]
    /\ txns' = r.store
    /\ UNCHANGED <<request, categorizer, artifacts>>

Upload ==
    Uploaded(upload(request.file_path, request.bank_name, request.user_id, request.file,
                    artifacts, txns))

NextParse == Parse \/ Upload

SpecParse == InitParse /\ [][NextParse]_vars

(***************************************************************************)
(* upload statement by statement, for two users who post at the same time. *)
(* artifacts is here the uploads folder, a file per name; txns is the      *)
(* transactions table as committed; request holds, for each user, where    *)
(* the upload stands, the rows it has parsed and the rows its connection   *)
(* has inserted and not yet committed; outcome holds the message flashed.  *)
(***************************************************************************)
\* the names a browser can send a statement under
FileNames == {"statement.csv", "april.csv"}

SbiRow(date, debit, credit) == CsvRow(SbiHeader, date, " SALARY ", debit, credit)

SbiFile(rows) == [csv |-> [columns |-> ColumnsOf(SbiHeader), rows |-> rows]]

\* the statements a user sends: its own export, and one whose second row has
\* a date parse_sbi refuses
Sent(u) ==
    IF u = 11
    THEN {SbiFile(<<SbiRow("05/04/2023", "", "50000.00"), SbiRow("06/04/2023", "2500.00", "")>>),
          SbiFile(<<SbiRow("05/04/2023", "", "50000.00"), SbiRow("2023-04-06", "2500.00", "")>>)}
    ELSE {SbiFile(<<SbiRow("07/04/2023", "2500.00", "0.00")>>)}

\* a row of the table from an upload of last month
EarlierRow ==
    [Transaction(11, "2023-03-01", "RENT", 1200000, "debit", "hdfc")
        EXCEPT !.id = 1, !.category = "housing"]

NotPosted == [pc |-> "post", filename |-> "", sent |-> NoFile, transactions |-> <<>>,
              pending |-> <<>>, lost |-> <<>>]

InitUploads ==
    /\ request = [u \in UserIds |-> NotPosted]
    /\ outcome = [u \in UserIds |-> ""]
    /\ artifacts = [name \in FileNames |-> NoFile]
    /\ txns = <<EarlierRow>>
    /\ categorizer = None

\* lines 97-124: the form is complete; file.save(file_path) writes the file
\* under its own name in the folder all users share
Post(u) ==
    /\ request[u].pc = "post"
    /\ \E filename \in FileNames, file \in Sent(u) :
        /\ artifacts' = [artifacts EXCEPT ![filename] = file]
        /\ request' = [request EXCEPT ![u].pc = "parse", ![u].filename = filename,
                                      ![u].sent = file]
    /\ UNCHANGED <<outcome, txns, categorizer>>

\* the except branch, lines 148-154; what the connection had inserted is lost
Except(u, error) ==
    /\ request' = [request EXCEPT ![u].pc = "finally", ![u].pending = <<>>,
                                  ![u].lost = request[u].pending]
    /\ outcome' = [outcome EXCEPT ![u] = "Error processing file: " \o error]

\* lines 129-133: parser.parse(file_path, bank, current_user.id) reads what
\* the path names now
ParseStep(u, r) ==
    /\ request[u].pc = "parse"
    /\ IF r.error # "" THEN Except(u, r.error)
       ELSE /\ request' = [request EXCEPT ![u].pc = "categorize",
                                          ![u].transactions = r.transactions]
            /\ UNCHANGED outcome
    /\ UNCHANGED <<artifacts, txns, categorizer>>

ParseUploaded(u) ==
    ParseStep(u, parse(request[u].filename, "sbi", u, artifacts[request[u].filename]))

\* lines 138-140: a new TransactionCategorizer (no model files) categorizes
CategorizeStep(u, c) ==
    /\ request[u].pc = "categorize"
    /\ IF c.error # "" THEN Except(u, c.error)
       ELSE /\ request' = [request EXCEPT ![u].pc = "save",
                                          ![u].transactions = c.transactions]
            /\ UNCHANGED outcome
    /\ UNCHANGED <<artifacts, txns, categorizer>>

CategorizeUploaded(u) ==
    CategorizeStep(u, bulk_categorize(load_model(NewCategorizer, NoArtifacts),
                                      request[u].transactions))

\* a save_transactions whose connection commits every INSERT as it is made
InsertAutocommit(u) ==
    /\ request[u].pc = "save"
    /\ Len(request[u].pending) < Len(request[u].transactions)
    /\ \A v \in UserIds \ {u} : request[v].pending = <<>>
    /\ request' = [request EXCEPT
                      ![u].pending = Append(@, request[u].transactions[Len(@) + 1])]
    /\ txns' = save_transactions(txns, <<request[u].transactions[Len(request[u].pending) + 1]>>, u)
    /\ UNCHANGED <<outcome, artifacts, categorizer>>

\* save_transactions, lines 77-97: one INSERT, inside the transaction sqlite3
\* opens before the first; an INSERT waits while another connection writes
Insert(u) ==
    /\ request[u].pc = "save"
    /\ Len(request[u].pending) < Len(request[u].transactions)
    /\ \A v \in UserIds \ {u} : request[v].pending = <<>>
    /\ request' = [request EXCEPT
                      ![u].pending = Append(@, request[u].transactions[Len(@) + 1])]
    /\ UNCHANGED <<outcome, artifacts, txns, categorizer>>

\* an INSERT (or connect) raises sqlite3.Error: the connection is dropped
\* without commit and what it had inserted is rolled back
InsertFails(u) ==
    /\ request[u].pc = "save"
    /\ Len(request[u].pending) < Len(request[u].transactions)
    /\ Except(u, "sqlite3.Error")
    /\ UNCHANGED <<artifacts, txns, categorizer>>

\* lines 99-100 and 145-146: conn.commit(), then the flash
Commit(u) ==
    /\ request[u].pc = "save"
    /\ Len(request[u].pending) = Len(request[u].transactions)
    /\ txns' = save_transactions(txns, request[u].pending, u)
    /\ request' = [request EXCEPT ![u].pc = "finally", ![u].pending = <<>>]
    /\ outcome' = [outcome EXCEPT
                      ![u] = "Successfully processed "
                             \o Decimal(Len(request[u].transactions)) \o " transactions"]
    /\ UNCHANGED <<artifacts, categorizer>>

\* lines 155-158: the file under file_path is removed if there is one
Finally(u) ==
    /\ request[u].pc = "finally"
    /\ artifacts' = [artifacts EXCEPT ![request[u].filename] = NoFile]
    /\ request' = [request EXCEPT ![u].pc = "done"]
    /\ UNCHANGED <<outcome, txns, categorizer>>

NextUploads ==
    \E u \in UserIds :
        \/ Post(u)
        \/ ParseUploaded(u)
        \/ CategorizeUploaded(u)
        \/ Insert(u)
        \/ InsertFails(u)
        \/ Commit(u)
        \/ Finally(u)

SpecUploads == InitUploads /\ [][NextUploads]_vars

(***************************************************************************)
(* Claims about concurrent uploads.                                        *)
(***************************************************************************)
\* the rows of the table that belong to user u and are not of last month,
\* without the id the table gave them
Stored(u) ==
    LET rows == SelectSeq(txns, LAMBDA t : t.user_id = u /\ t # EarlierRow)
    IN  [k \in DOMAIN rows |-> [rows[k] EXCEPT !.id = NoId]]

\* what parse and bulk_categorize make of the statement user u sent
OwnRows(u) ==
    bulk_categorize(load_model(NewCategorizer, NoArtifacts),
                    parse("statement.csv", "sbi", u, request[u].sent).transactions).transactions

\* the statement user u sent is one parse accepts
WellFormed(u) ==
    request[u].sent # NoFile /\ parse("statement.csv", "sbi", u, request[u].sent).error = ""

Succeeded(u) ==
    outcome[u] = "Successfully processed " \o Decimal(Len(request[u].transactions))
                 \o " transactions"

\* C25 (as stated): in every interleaving of the uploads of two users, also
\* under the same file name, both complete successfully and each user's
\* stored transactions are the ones parsed from that user's own statement.
C25_UsersIndependent ==
    (/\ \A u \in UserIds : request[u].pc = "done" /\ WellFormed(u)
     /\ \A u \in UserIds : outcome[u] # "Error processing file: sqlite3.Error")
    => \A u \in UserIds : Succeeded(u) /\ Stored(u) = OwnRows(u)

\* C28: an upload is all-or-nothing with respect to the table: rows of the
\* upload are in it only once parse, bulk_categorize and every INSERT have
\* succeeded and the commit is made, and then all of them are; after a
\* failure, also among the INSERTs, the table has none of them and still has
\* the rows it had.
C28_AllOrNothing ==
    /\ \A u \in UserIds :
        IF Succeeded(u) THEN Len(Stored(u)) = Len(request[u].transactions)
        ELSE Stored(u) = <<>>
    /\ txns[1] = EarlierRow

\* the second INSERT of user 11 has failed after the first was made, and the
\* table has the earlier row and the committed upload of user 22 only
C28_Witness ==
    /\ outcome[11] = "Error processing file: sqlite3.Error"
    /\ Len(request[11].lost) = 1
    /\ Succeeded(22)
    /\ Len(txns) = 2 /\ txns[1] = EarlierRow /\ txns[2].user_id = 22

(***************************************************************************)
(* analyzer.py: FinancialAnalyzer.  self.df is a sequence of rows in the   *)
(* order of self.transactions; a date in it is the triple <<y, m, d>>.     *)
(***************************************************************************)
\* pd.to_datetime of a stored date, 'YYYY-MM-DD'
ToDatetime(date) ==
    <<ToNat(SubSeq(date, 1, 4)), ToNat(SubSeq(date, 6, 7)), ToNat(SubSeq(date, 9, 10))>>

RECURSIVE DaysBeforeMonth(_, _)
DaysBeforeMonth(y, m) ==
    IF m = 1 THEN 0 ELSE DaysBeforeMonth(y, m - 1) + DaysInMonth(y, m - 1)

\* the day number of a date (date.toordinal()): differences of day numbers are
\* the .days of a difference of dates
Ordinal(date) ==
    365 * (date[1] - 1) + (date[1] - 1) \div 4 - (date[1] - 1) \div 100
        + (date[1] - 1) \div 400 + DaysBeforeMonth(date[1], date[2]) + date[3]

\* one row of the DataFrame (the column 'week' is never read and is left out)
DataRow(transaction, date) ==
    [id |-> transaction.id, date |-> date, description |-> transaction.description,
     amount |-> transaction.amount, type |-> transaction.transaction_type,
     category |-> transaction.category, is_recurring |-> transaction.is_recurring,
     bank |-> transaction.bank,
     month |-> Pad(date[1], 4) \o "-" \o Pad(date[2], 2),
     day |-> date[3],
     debit |-> IF transaction.transaction_type = "debit" THEN transaction.amount ELSE 0,
     credit |-> IF transaction.transaction_type = "credit" THEN transaction.amount ELSE 0]

\* _create_dataframe
create_dataframe(list) ==
    [i \in DOMAIN list |-> DataRow(list[i], ToDatetime(list[i].date))]

\* the rows of one group of self.df.groupby(['description', 'amount'])
GroupRows(df, i) ==
    {j \in DOMAIN df : df[j].description = df[i].description /\ df[j].amount = df[i].amount}

\* group.sort_values('date'): the rows of the group by ascending date
RECURSIVE SortByDate(_, _)
SortByDate(df, rows) ==
    IF rows = {} THEN <<>>
    ELSE LET first == CHOOSE i \in rows :
                        \A j \in rows :
                            \/ Ordinal(df[i].date) < Ordinal(df[j].date)
                            \/ Ordinal(df[i].date) = Ordinal(df[j].date) /\ i <= j
         IN  <<first>> \o SortByDate(df, rows \ {first})

\* a detector that marks only the members next to a close neighbour
CloseMemberIds(df, sorted, time_window_days) ==
    {df[sorted[k]].id :
        k \in {n \in 1..Len(sorted) :
                 \E i \in {n - 1, n} \cap (1..(Len(sorted) - 1)) :
                    Ordinal(df[sorted[i + 1]].date) - Ordinal(df[sorted[i]].date)
                        <= time_window_days}}

\* what one group that is large enough adds to recurring_ids: all its ids when
\* two neighbours of the sorted dates are at most time_window_days apart
GroupRecurringIds(df, sorted, time_window_days) ==
    IF \E i \in 1..(Len(sorted) - 1) :
            Ordinal(df[sorted[i + 1]].date) - Ordinal(df[sorted[i]].date) <= time_window_days
    THEN {df[sorted[k]].id : k \in 1..Len(sorted)}
    ELSE {}

\* recurring_ids after the loop over the groups
RecurringIds(df, min_occurrences, time_window_days) ==
    UNION {IF Cardinality(GroupRows(df, i)) >= min_occurrences
           THEN GroupRecurringIds(df, SortByDate(df, GroupRows(df, i)), time_window_days)
           ELSE {} : i \in DOMAIN df}

\* the last loop: the objects whose id is in recurring_ids are marked
MarkRecurring(list, recurring_ids) ==
    [i \in DOMAIN list |->
        IF list[i].id \in recurring_ids THEN [list[i] EXCEPT !.is_recurring = TRUE]
        ELSE list[i]]

\* identify_recurring_transactions: self.transactions after the call
identify_recurring_transactions(list, min_occurrences, time_window_days) ==
    IF list = <<>> THEN <<>>
    ELSE MarkRecurring(list, RecurringIds(create_dataframe(list), min_occurrences,
                                          time_window_days))

(***************************************************************************)
(* Recurrence detection on the stored transactions of a user.              *)
(***************************************************************************)
MaxRecur == 3

\* the defaults of identify_recurring_transactions
DefaultMinOccurrences == 2
DefaultTimeWindowDays == 45

RecurDescriptions == {"NETFLIX", "RENT"}
RecurAmounts == {49900, 59900}
RecurDates == {"2024-01-05", "2024-02-10", "2024-06-01"}

\* a stored debit as upload leaves it: categorized by the rule tier
RecurTransaction(id, f) ==
    [Transaction(11, f[3], f[1], f[2], "debit", "sbi") EXCEPT
        !.id = id,
        !.category = IF f[1] = "NETFLIX" THEN "entertainment" ELSE "housing"]

RecurLists(max) ==
    UNION {{[k \in 1..n |-> RecurTransaction(k, f[k])] :
                f \in [1..n -> RecurDescriptions \X RecurAmounts \X RecurDates]} :
           n \in 0..max}

RecurArguments ==
    {[op |-> "identify_recurring_transactions", min_occurrences |-> a[1],
      time_window_days |-> a[2]] :
        a \in {<<DefaultMinOccurrences, DefaultTimeWindowDays>>,
               <<DefaultMinOccurrences + 1, DefaultTimeWindowDays>>,
               <<DefaultMinOccurrences, 30>>}}

InitRecur ==
    /\ request \in RecurArguments
    /\ outcome = Pending
    /\ categorizer = None
    /\ artifacts = None
    /\ txns \in RecurLists(MaxRecur)

\* FinancialAnalyzer(transactions).identify_recurring_transactions(...)
IdentifyRecurring ==
    /\ outcome = Pending
    /\ txns' = identify_recurring_transactions(txns, request.min_occurrences,
                                                request.time_window_days)
    /\ outcome' = [status |-> "done"]
    /\ UNCHANGED <<request, categorizer, artifacts>>

NextRecur == IdentifyRecurring

SpecRecur == InitRecur /\ [][NextRecur]_vars

(***************************************************************************)
(* Claims about recurrence detection.                                      *)
(***************************************************************************)
\* the day number of the date of object i
DayOf(i) == Ordinal(ToDatetime(txns[i].date))

\* the objects with the description and amount of object i
GroupOf(i) ==
    {j \in DOMAIN txns :
        txns[j].description = txns[i].description /\ txns[j].amount = txns[i].amount}

\* two members of the group of i are neighbours in date order and at most
\* time_window_days apart
HasCloseNeighbours(i) ==
    \E a, b \in GroupOf(i) :
        /\ a # b
        /\ DayOf(a) <= DayOf(b)
        /\ DayOf(b) - DayOf(a) <= request.time_window_days
        /\ ~\E c \in GroupOf(i) : DayOf(a) < DayOf(c) /\ DayOf(c) < DayOf(b)

\* C6: after identify_recurring_transactions, every member of a group of equal
\* (description, amount) that has at least min_occurrences members and two
\* date-adjacent members at most time_window_days apart is marked recurring,
\* also the members far from every other member.
C6_WholeGroupMarked ==
    Done =>
        \A i \in DOMAIN txns :
            (Cardinality(GroupOf(i)) >= request.min_occurrences /\ HasCloseNeighbours(i))
                => txns[i].is_recurring

\* NETFLIX 499.00 on 2024-01-05, 2024-02-10 and 2024-06-01 with the defaults:
\* all three are marked
C6_Witness ==
    /\ Done
    /\ request.min_occurrences = 2 /\ request.time_window_days = 45
    /\ Len(txns) = 3
    /\ \A i \in DOMAIN txns :
        /\ txns[i].description = "NETFLIX" /\ txns[i].amount = 49900
        /\ txns[i].is_recurring
    /\ {txns[i].date : i \in DOMAIN txns} = {"2024-01-05", "2024-02-10", "2024-06-01"}

(***************************************************************************)
(* Recurrence detection on collections handed to FinancialAnalyzer by any  *)
(* caller: transactions as parse returns them (every id unset) and         *)
(* transactions whose ids are set but not distinct.  A column of ids is    *)
(* all unset or all set, so the 'id' column of the DataFrame holds the     *)
(* objects' own values.                                                    *)
(***************************************************************************)
\* the id columns of a collection of n transactions: every id unset, or ids
\* 1 and 2 with repeats (the first is 1; the other columns are these with the
\* two ids exchanged)
IdColumns(n) == {[k \in 1..n |-> NoId]} \cup {c \in [1..n -> 1..2] : c[1] = 1}

FreshLists(max) ==
    UNION {{[k \in 1..n |-> RecurTransaction(ids[k], f[k])] :
                f \in [1..n -> RecurDescriptions \X RecurAmounts \X RecurDates],
                ids \in IdColumns(n)} :
           n \in 1..max}

InitFresh ==
    /\ request \in RecurArguments
    /\ outcome = Pending
    /\ categorizer = None
    /\ artifacts = None
    /\ txns \in FreshLists(MaxRecur)

NextFresh == IdentifyRecurring

SpecFresh == InitFresh /\ [][NextFresh]_vars

\* C27: a step of identify_recurring_transactions changes is_recurring only on
\* members of a group of equal (description, amount) that has at least
\* min_occurrences members and two date-adjacent members at most
\* time_window_days apart; every other transaction keeps its value, also when
\* the ids are unset or not distinct.
C27_OnlyQualifyingMarked ==
    [][\A i \in DOMAIN txns :
            ~(Cardinality(GroupOf(i)) >= request.min_occurrences /\ HasCloseNeighbours(i))
                => txns'[i].is_recurring = txns[i].is_recurring]_vars

(***************************************************************************)
(* detect_anomalies.  The z-score (amount - mean) / std, with std the      *)
(* sample standard deviation, is compared exactly: with n rows of sum S,   *)
(* d[j] = n * amount[j] - S is n times the deviation of row j, std = 0 iff *)
(* every d[j] = 0, and abs(z) > t iff (n - 1) * d[j]^2 > t^2 * (sum of the *)
(* d[k]^2).  The d[j] are divided by their common divisor to keep the      *)
(* products small.  A threshold is the fraction num / den.                 *)
(***************************************************************************)
Abs(x) == IF x < 0 THEN 0 - x ELSE x

RECURSIVE Gcd(_, _)
Gcd(a, b) == IF b = 0 THEN a ELSE Gcd(b, a % b)

RECURSIVE GcdAll(_)
GcdAll(S) ==
    IF S = {} THEN 0 ELSE LET x == CHOOSE x \in S : TRUE IN Gcd(x, GcdAll(S \ {x}))

\* category_df['amount'].sum()
RECURSIVE SumAmounts(_, _)
SumAmounts(df, rows) ==
    IF rows = {} THEN 0
    ELSE LET j == CHOOSE j \in rows : TRUE IN df[j].amount + SumAmounts(df, rows \ {j})

RECURSIVE SumSquares(_, _)
SumSquares(e, rows) ==
    IF rows = {} THEN 0
    ELSE LET j == CHOOSE j \in rows : TRUE IN e[j] * e[j] + SumSquares(e, rows \ {j})

\* self.df['category'].unique(): the categories in order of first appearance
RECURSIVE Unique(_, _, _)
Unique(df, i, seen) ==
    IF i > Len(df) THEN <<>>
    ELSE IF df[i].category \in seen THEN Unique(df, i + 1, seen)
    ELSE <<df[i].category>> \o Unique(df, i + 1, seen \cup {df[i].category})

\* self.df[self.df['category'] == category]
CategoryRows(df, category) == {j \in DOMAIN df : df[j].category = category}

\* n * (amount - mean) for the rows of a category
Deviations(df, rows, total) ==
    [j \in rows |-> Cardinality(rows) * df[j].amount - total]

\* a test that also reports a z-score equal to the threshold
ExceedsOrEquals(e, j, z_threshold) ==
    (Cardinality(DOMAIN e) - 1) * e[j] * e[j] * z_threshold.den * z_threshold.den
        >= z_threshold.num * z_threshold.num * SumSquares(e, DOMAIN e)

\* a test that compares the squared z-score with the threshold
ExceedsUnsquared(e, j, z_threshold) ==
    (Cardinality(DOMAIN e) - 1) * e[j] * e[j] * z_threshold.den
        > z_threshold.num * SumSquares(e, DOMAIN e)

\* abs(z_score) > z_threshold
Exceeds(e, j, z_threshold) ==
    (Cardinality(DOMAIN e) - 1) * e[j] * e[j] * z_threshold.den * z_threshold.den
        > z_threshold.num * z_threshold.num * SumSquares(e, DOMAIN e)

\* the rows of a category with non-zero std that the inner loop reports
Flagged(d, scale, z_threshold) ==
    {j \in DOMAIN d : Exceeds([k \in DOMAIN d |-> d[k] \div scale], j, z_threshold)}

\* one round of the loop over the categories: skipped for a single row and
\* for std == 0
NonConstantAnomalies(d, z_threshold) ==
    IF \A j \in DOMAIN d : d[j] = 0 THEN {}
    ELSE Flagged(d, GcdAll({Abs(d[j]) : j \in DOMAIN d}), z_threshold)

CategoryAnomalies(df, rows, z_threshold) ==
    IF Cardinality(rows) <= 1 THEN {}
    ELSE NonConstantAnomalies(Deviations(df, rows, SumAmounts(df, rows)), z_threshold)

\* the dict appended for a row (round(z_score, 2), in general the rounding of
\* an irrational number, is left out)
AnomalyRecord(row) ==
    [id |-> row.id, date |-> Strftime(row.date), description |-> row.description,
     amount |-> row.amount, category |-> row.category]

\* the records of the reported rows, in the order of category_df.iterrows()
AnomalyRecords(df, rows) ==
    LET order == SelectSeq([i \in 1..Len(df) |-> i], LAMBDA i : i \in rows)
    IN  [k \in 1..Len(order) |-> AnomalyRecord(df[order[k]])]

RECURSIVE AnomaliesOf(_, _, _)
AnomaliesOf(df, cats, z_threshold) ==
    IF cats = <<>> THEN <<>>
    ELSE AnomalyRecords(df, CategoryAnomalies(df, CategoryRows(df, Head(cats)), z_threshold))
            \o AnomaliesOf(df, Tail(cats), z_threshold)

DataframeAnomalies(df, z_threshold) == AnomaliesOf(df, Unique(df, 1, {}), z_threshold)

\* detect_anomalies: the list anomalies
detect_anomalies(list, z_threshold) ==
    IF list = <<>> THEN <<>> ELSE DataframeAnomalies(create_dataframe(list), z_threshold)

(***************************************************************************)
(* Anomaly detection on the stored transactions of a user.                 *)
(***************************************************************************)
MaxAnom == 4

\* a default of 1.5
LowZThreshold == [num |-> 3, den |-> 2]

\* the default of detect_anomalies, 2.0
DefaultZThreshold == [num |-> 2, den |-> 1]

ZThresholds == {DefaultZThreshold, [num |-> 3, den |-> 2], [num |-> 1, den |-> 2]}

AnomCategories == {"food", "bills"}
AnomAmounts == {9800, 10000, 10200, 50000}

AnomTransaction(id, f) ==
    [Transaction(11, "2024-01-05", IF f[1] = "food" THEN "SWIGGY" ELSE "LIC PREMIUM",
                 f[2], "debit", "sbi") EXCEPT !.id = id, !.category = f[1]]

AnomLists(max) ==
    UNION {{[k \in 1..n |-> AnomTransaction(k, f[k])] :
                f \in [1..n -> AnomCategories \X AnomAmounts]} : n \in 0..max}

InitAnom ==
    /\ request \in {[op |-> "detect_anomalies", z_threshold |-> z] : z \in ZThresholds}
    /\ outcome = Pending
    /\ categorizer = None
    /\ artifacts = None
    /\ txns \in AnomLists(MaxAnom)

\* FinancialAnalyzer(transactions).detect_anomalies(z_threshold)
DetectAnomalies ==
    /\ outcome = Pending
    /\ outcome' = [status |-> "done", anomalies |-> detect_anomalies(txns, request.z_threshold)]
    /\ UNCHANGED <<request, categorizer, artifacts, txns>>

NextAnom == DetectAnomalies

SpecAnom == InitAnom /\ [][NextAnom]_vars

(***************************************************************************)
(* Claims about anomaly detection.  Amounts are taken in whole rupees,     *)
(* which all amounts of AnomAmounts are.                                   *)
(***************************************************************************)
Rupees(i) == txns[i].amount \div 100

SameCategory(i) == {j \in DOMAIN txns : txns[j].category = txns[i].category}

RECURSIVE RupeeSum(_)
RupeeSum(S) ==
    IF S = {} THEN 0 ELSE LET j == CHOOSE j \in S : TRUE IN Rupees(j) + RupeeSum(S \ {j})

\* n times (amount - category_mean) of object i
Spread(i) == Cardinality(SameCategory(i)) * Rupees(i) - RupeeSum(SameCategory(i))

RECURSIVE SpreadSquares(_)
SpreadSquares(S) ==
    IF S = {} THEN 0
    ELSE LET j == CHOOSE j \in S : TRUE IN Spread(j) * Spread(j) + SpreadSquares(S \ {j})

\* |amount - category_mean| > z_threshold * category_std, squared and cleared
\* of denominators (std^2 = sum of squared deviations / (n - 1))
BeyondThreshold(i) ==
    (Cardinality(SameCategory(i)) - 1) * Spread(i) * Spread(i)
            * request.z_threshold.den * request.z_threshold.den
        > request.z_threshold.num * request.z_threshold.num * SpreadSquares(SameCategory(i))

Reported(i) == \E k \in DOMAIN outcome.anomalies : outcome.anomalies[k].id = txns[i].id

\* C7: detect_anomalies reports a transaction if and only if its category has
\* at least 2 transactions, the category's standard deviation is not zero and
\* |amount - mean| > z_threshold * std, strictly; no transaction is reported
\* twice.
C7_ReportedIffBeyondThreshold ==
    Done =>
        /\ \A i \in DOMAIN txns :
            Reported(i) <=> /\ Cardinality(SameCategory(i)) >= 2
                            /\ \E j \in SameCategory(i) : Spread(j) # 0
                            /\ BeyondThreshold(i)
        /\ \A k, l \in DOMAIN outcome.anomalies :
            outcome.anomalies[k].id = outcome.anomalies[l].id => k = l

\* three equal amounts and one apart have z-scores of exactly 0.5 and 1.5:
\* with the threshold 0.5 only the one apart is reported, the others sit on
\* the threshold
C7_Witness ==
    /\ Done
    /\ request.z_threshold = [num |-> 1, den |-> 2]
    /\ Len(txns) = 4
    /\ \A i \in DOMAIN txns : txns[i].category = "food"
    /\ \A i \in 1..3 : txns[i].amount = 10000 /\ ~Reported(i)
    /\ txns[4].amount = 50000 /\ Reported(4)
    /\ Len(outcome.anomalies) = 1

\* a category that holds exactly the amounts 100, 102, 98 and 500
ExampleCategory(category) ==
    LET members == {i \in DOMAIN txns : txns[i].category = category}
    IN  /\ Cardinality(members) = 4
        /\ {txns[i].amount : i \in members} = {10000, 10200, 9800, 50000}

\* C8 (as stated): with z_threshold = 2.0, the transaction of amount 500 of a
\* category with exactly the amounts 100, 102, 98 and 500 is reported.
C8_Example500Reported ==
    (Done /\ request.z_threshold = DefaultZThreshold) =>
        \A i \in DOMAIN txns :
            (ExampleCategory(txns[i].category) /\ txns[i].amount = 50000) => Reported(i)

\* C8 (amended): with z_threshold = 2.0, no transaction of a category with
\* exactly the amounts 100, 102, 98 and 500 is reported; the z-score of 500 is
\* 1.50, below the threshold.
C8_ExampleNotReported ==
    (Done /\ request.z_threshold = DefaultZThreshold) =>
        \A i \in DOMAIN txns : ExampleCategory(txns[i].category) => ~Reported(i)

C8_Witness ==
    /\ Done
    /\ request.z_threshold = DefaultZThreshold
    /\ ExampleCategory("food")
    /\ outcome.anomalies = <<>>

(***************************************************************************)
(* Anomaly detection with the default threshold on categories of up to     *)
(* MaxSix transactions: the rows of 'food', then at most one of 'bills'.   *)
(***************************************************************************)
MaxSix == 6

SixLists(max) ==
    UNION {{[k \in 1..(n + m) |->
                IF k <= n THEN AnomTransaction(k, <<"food", f[k]>>)
                ELSE AnomTransaction(k, <<"bills", 50000>>)] :
                f \in [1..n -> AnomAmounts], m \in 0..1} :
           n \in 0..max}

InitSix ==
    /\ request = [op |-> "detect_anomalies", z_threshold |-> DefaultZThreshold]
    /\ outcome = Pending
    /\ categorizer = None
    /\ artifacts = None
    /\ txns \in SixLists(MaxSix)

NextSix == DetectAnomalies

SpecSix == InitSix /\ [][NextSix]_vars

\* the transactions of the category of anomaly k
CategoryOf(k) == {i \in DOMAIN txns : txns[i].category = outcome.anomalies[k].category}

\* C30: with the default threshold 2.0 and the sample standard deviation,
\* every transaction detect_anomalies reports belongs to a category of at
\* least 6 transactions, whatever the amounts; a category of 6 can have one.
C30_NoAnomalyBelowSix ==
    Done => \A k \in DOMAIN outcome.anomalies : Cardinality(CategoryOf(k)) >= 6

\* five food debits of 100.00 and one of 500.00, with one bills debit: the
\* one of 500.00 has z = 5 / sqrt(6) and is reported
C30_Witness ==
    /\ Done
    /\ Len(txns) = 7
    /\ Len(outcome.anomalies) = 1
    /\ outcome.anomalies[1].category = "food"
    /\ outcome.anomalies[1].amount = 50000
    /\ Cardinality(CategoryOf(1)) = 6
    /\ \A i \in CategoryOf(1) : txns[i].amount \in {10000, 50000}

(***************************************************************************)
(* project_monthly_spending.  today is the triple <<y, m, d>> that         *)
(* datetime.now() gives; a float quotient is the fraction num / den.       *)
(***************************************************************************)
\* date - timedelta(days=1)
PrevDay(date) ==
    IF date[3] > 1 THEN <<date[1], date[2], date[3] - 1>>
    ELSE IF date[2] > 1 THEN <<date[1], date[2] - 1, DaysInMonth(date[1], date[2] - 1)>>
    ELSE <<date[1] - 1, 12, 31>>

\* a baseline month taken by stepping the calendar back one month, whatever n
FirstOfPreviousMonth(date, n) ==
    IF date[2] > 1 THEN <<date[1], date[2] - 1, 1>> ELSE <<date[1] - 1, 12, 1>>

\* date - timedelta(days=n)
RECURSIVE MinusDays(_, _)
MinusDays(date, n) == IF n = 0 THEN date ELSE MinusDays(PrevDay(date), n - 1)

\* strftime('%Y-%m')
MonthText(date) == Pad(date[1], 4) \o "-" \o Pad(date[2], 2)

\* days_in_month as lines 217-218 compute it: the first of the next month
\* number, in the year of today, minus the first of this month
days_in_month(today) ==
    Ordinal(<<today[1], IF today[2] < 12 THEN today[2] + 1 ELSE 1, 1>>)
        - Ordinal(<<today[1], today[2], 1>>)

\* round(x, 2) of x = num / den hundredths (den > 0): the nearest hundredth,
\* a tie going to the even one
Round2(num, den) ==
    LET q == num \div den
        r == num - q * den
    IN  IF 2 * r < den THEN q
        ELSE IF 2 * r > den THEN q + 1
        ELSE IF q % 2 = 0 THEN q ELSE q + 1

\* projected > baseline * factor if baseline > 0 else False, with the factor
\* in tenths (1.2 is 12, 1.1 is 11)
IsOvershootUnguarded(projected, baseline, tenths) ==
    projected.num * 10 > baseline * tenths * projected.den

IsOvershoot(projected, baseline, tenths) ==
    IF baseline > 0 THEN projected.num * 10 > baseline * tenths * projected.den ELSE FALSE

\* one entry of projections
Projection(amount, projected, baseline, tenths) ==
    [current_spent |-> amount,
     projected_amount |-> Round2(projected.num, projected.den),
     previous_month |-> baseline,
     possible_overshoot |-> IF IsOvershoot(projected, baseline, tenths) THEN 1 ELSE 0]

\* the body of the loop over category_spent.items()
CategoryProjection(amount, baseline, days_elapsed, days_remaining) ==
    Projection(amount,
               [num |-> amount * days_elapsed + amount * days_remaining,
                den |-> days_elapsed],
               baseline, 12)

\* the entry 'total'
TotalProjection(total_spent, baseline, days_elapsed, days_total) ==
    Projection(total_spent, [num |-> total_spent * days_total, den |-> days_elapsed],
               baseline, 11)

\* the debits of a month, of one category or (category = None) of all
MonthDebits(df, month, category) ==
    {j \in DOMAIN df :
        /\ df[j].month = month
        /\ df[j].type = "debit"
        /\ category # None => df[j].category = category}

\* projections once curr_month_df is known not to be empty
Projections(df, today, current_month, prev_month) ==
    [key \in {df[j].category : j \in MonthDebits(df, current_month, None)} \cup {"total"} |->
        IF key = "total"
        THEN TotalProjection(SumAmounts(df, MonthDebits(df, current_month, None)),
                             SumAmounts(df, MonthDebits(df, prev_month, None)),
                             today[3], days_in_month(today))
        ELSE CategoryProjection(SumAmounts(df, MonthDebits(df, current_month, key)),
                                SumAmounts(df, MonthDebits(df, prev_month, key)),
                                today[3], days_in_month(today) - today[3])]

DataframeProjections(df, today) ==
    IF MonthDebits(df, MonthText(today), None) = {} THEN <<>>
    ELSE Projections(df, today, MonthText(today), MonthText(MinusDays(today, 30)))

\* a projection that does not return early on an empty DataFrame
ProjectUnguarded(list, today) ==
    Projections(create_dataframe(list), today, MonthText(today),
                MonthText(MinusDays(today, 30)))

\* project_monthly_spending at the date today: the dict projections
project_monthly_spending(list, today) ==
    IF list = <<>> THEN <<>> ELSE DataframeProjections(create_dataframe(list), today)

(***************************************************************************)
(* Projection on the stored transactions of a user.                        *)
(***************************************************************************)
MaxProj == 3

\* the dates datetime.now() is taken at: day 10 of a 30-day month, December,
\* February of a leap and of a common year, the last day of a 31-day month,
\* the first day of the month after a 28-day February
Todays == {<<2024, 4, 10>>, <<2024, 12, 15>>, <<2024, 2, 29>>, <<2023, 2, 10>>,
           <<2024, 3, 31>>, <<2023, 3, 1>>}

\* day 5 of the month of today, and day 15 of the month before it
ProjDates(today) ==
    {Strftime(<<today[1], today[2], 5>>),
     Strftime(IF today[2] > 1 THEN <<today[1], today[2] - 1, 15>>
              ELSE <<today[1] - 1, 12, 15>>)}

ProjAmounts == {30000, 60000}
ProjCategories == {"food", "bills"}
ProjTypes == {"debit", "credit"}

ProjTransaction(id, f) ==
    [Transaction(11, f[1], IF f[3] = "food" THEN "SWIGGY" ELSE "LIC PREMIUM",
                 f[2], f[4], "sbi") EXCEPT !.id = id, !.category = f[3]]

ProjLists(today) ==
    UNION {{[k \in 1..n |-> ProjTransaction(k, f[k])] :
                f \in [1..n -> ProjDates(today) \X ProjAmounts \X ProjCategories \X ProjTypes]} :
           n \in 0..MaxProj}

InitProj ==
    /\ request \in {[op |-> "project_monthly_spending", today |-> today] : today \in Todays}
    /\ outcome = Pending
    /\ categorizer = None
    /\ artifacts = None
    /\ txns \in ProjLists(request.today)

\* FinancialAnalyzer(transactions).project_monthly_spending()
ProjectMonthlySpending ==
    /\ outcome = Pending
    /\ outcome' = [status |-> "done",
                   projections |-> project_monthly_spending(txns, request.today)]
    /\ UNCHANGED <<request, categorizer, artifacts, txns>>

NextProj == ProjectMonthlySpending

SpecProj == InitProj /\ [][NextProj]_vars

(***************************************************************************)
(* Claims about the projection.                                            *)
(***************************************************************************)
\* C9 (as stated): for every current date the month length used is the number
\* of days of the current calendar month, so every projected_amount is
\* current_spent * days_in_month / days_elapsed (to the hundredth) and is
\* never less than current_spent.
C9_ActualMonthLength ==
    Done =>
        \A key \in DOMAIN outcome.projections :
            LET p == outcome.projections[key] IN
            /\ p.projected_amount =
                    Round2(p.current_spent * DaysInMonth(request.today[1], request.today[2]),
                           request.today[3])
            /\ p.projected_amount >= p.current_spent

\* C10: possible_overshoot of a category is 1 exactly when its baseline is > 0
\* and its projection, current_spent * days_in_month / days_elapsed with the
\* month length the operation uses, is strictly greater than 1.2 times the
\* baseline; for 'total' the factor is 1.1; otherwise it is 0.
C10_OvershootIffAboveBaseline ==
    Done =>
        \A key \in DOMAIN outcome.projections :
            LET p == outcome.projections[key] IN
            /\ p.possible_overshoot \in {0, 1}
            /\ p.possible_overshoot = 1 <=>
                    /\ p.previous_month > 0
                    /\ p.current_spent * days_in_month(request.today) * 10
                        > p.previous_month * (IF key = "total" THEN 11 ELSE 12)
                            * request.today[3]

\* 300 spent after 10 of 30 days projects 900: flagged against the baseline
\* 600 (food), not flagged against the baseline 0 (bills)
C10_Witness ==
    /\ Done
    /\ request.today = <<2024, 4, 10>>
    /\ DOMAIN outcome.projections = {"food", "bills", "total"}
    /\ outcome.projections["food"] =
            [current_spent |-> 30000, projected_amount |-> 90000,
             previous_month |-> 60000, possible_overshoot |-> 1]
    /\ outcome.projections["bills"] =
            [current_spent |-> 30000, projected_amount |-> 90000,
             previous_month |-> 0, possible_overshoot |-> 0]

\* the calendar month <<y, m>> in which the day `days` days before today falls
MonthOfDayBefore(today, days) ==
    CHOOSE ym \in {<<y, m>> : y \in {today[1] - 1, today[1]}, m \in 1..12} :
        LET first == Ordinal(<<ym[1], ym[2], 1>>) IN
        /\ first <= Ordinal(today) - days
        /\ Ordinal(today) - days < first + DaysInMonth(ym[1], ym[2])

\* the stored debits of calendar month ym, of the category key or, for the
\* key 'total', of every category
DebitsIn(ym, key) ==
    {i \in DOMAIN txns :
        /\ txns[i].transaction_type = "debit"
        /\ <<ToDatetime(txns[i].date)[1], ToDatetime(txns[i].date)[2]>> = ym
        /\ key # "total" => txns[i].category = key}

RECURSIVE AmountSum(_)
AmountSum(S) ==
    IF S = {} THEN 0
    ELSE LET i == CHOOSE i \in S : TRUE IN txns[i].amount + AmountSum(S \ {i})

\* the month before the month of today on the calendar
LiteralPreviousMonth(today) ==
    IF today[2] > 1 THEN <<today[1], today[2] - 1>> ELSE <<today[1] - 1, 12>>

\* C11: the baseline previous_month of every entry is the debit total of its
\* category (of all categories for 'total') over the calendar month in which
\* the day exactly 30 days before the current date falls; that month is found
\* by the 30-day step, not by stepping the calendar back one month.
C11_BaselineThirtyDaysBefore ==
    Done =>
        \A key \in DOMAIN outcome.projections :
            outcome.projections[key].previous_month =
                AmountSum(DebitsIn(MonthOfDayBefore(request.today, 30), key))

\* on 31 March the day 30 days before is 1 March: the baseline of food is the
\* 300.00 of March, not the 600.00 of February
C11_Witness ==
    /\ Done
    /\ request.today = <<2024, 3, 31>>
    /\ MonthOfDayBefore(request.today, 30) # LiteralPreviousMonth(request.today)
    /\ "food" \in DOMAIN outcome.projections
    /\ outcome.projections["food"].previous_month = 30000
    /\ AmountSum(DebitsIn(LiteralPreviousMonth(request.today), "food")) = 60000

\* C29: on every current date the baseline previous_month of every entry is
\* the debit total of its category (of all categories for 'total') over the
\* calendar month just before the month of the current date, never over the
\* current month and never over an earlier month.
C29_BaselineIsCalendarPreviousMonth ==
    Done =>
        \A key \in DOMAIN outcome.projections :
            outcome.projections[key].previous_month =
                AmountSum(DebitsIn(LiteralPreviousMonth(request.today), key))

(***************************************************************************)
(* analyzer.py: the aggregates get_basic_stats, get_category_breakdown,    *)
(* get_monthly_breakdown and get_daily_heatmap.                            *)
(***************************************************************************)
\* self.df[column].sum() over the rows given
RECURSIVE SumColumn(_, _, _)
SumColumn(df, rows, column) ==
    IF rows = {} THEN 0
    ELSE LET j == CHOOSE j \in rows : TRUE
         IN  df[j][column] + SumColumn(df, rows \ {j}, column)

\* statistics whose net adds the two totals
BasicStatsGross(df, total_debit, total_credit) ==
    [total_transactions |-> Len(df),
     total_debit |-> total_debit,
     total_credit |-> total_credit,
     net_cashflow |-> total_credit + total_debit,
     average_transaction |-> Round2(SumColumn(df, DOMAIN df, "amount"), Len(df))]

\* the values of get_basic_stats on a DataFrame that is not empty
BasicStats(df, total_debit, total_credit) ==
    [total_transactions |-> Len(df),
     total_debit |-> total_debit,
     total_credit |-> total_credit,
     net_cashflow |-> total_credit - total_debit,
     average_transaction |-> Round2(SumColumn(df, DOMAIN df, "amount"), Len(df))]

\* the dict returned for an empty DataFrame
ZeroStats ==
    [total_transactions |-> 0, total_debit |-> 0, total_credit |-> 0,
     net_cashflow |-> 0, average_transaction |-> 0]

get_basic_stats(list) ==
    IF list = <<>> THEN ZeroStats
    ELSE BasicStats(create_dataframe(list),
                    SumColumn(create_dataframe(list), DOMAIN list, "debit"),
                    SumColumn(create_dataframe(list), DOMAIN list, "credit"))

\* the rows groupby('category') puts in a group: a row whose key is None is in
\* no group
Grouped(df, rows) == {j \in rows : df[j].category # None}

\* a breakdown over the rows of every type
AllRows(df) == DOMAIN df

\* debits_df
DebitRows(df) == {j \in DOMAIN df : df[j].type = "debit"}

\* category_totals: debits_df.groupby('category')['amount'].sum()
CategoryTotals(df, rows) ==
    [category \in {df[j].category : j \in Grouped(df, rows)} |->
        SumColumn(df, {j \in rows : df[j].category = category}, "amount")]

\* sort_values('amount', ascending=False): the orders of the categories in
\* which no total is followed by a greater one (the sort is not stable: equal
\* totals come in either order)
Descending(totals) ==
    {order \in [1..Cardinality(DOMAIN totals) -> DOMAIN totals] :
        /\ \A a, b \in DOMAIN order : a # b => order[a] # order[b]
        /\ \A a \in DOMAIN order : a > 1 => totals[order[a - 1]] >= totals[order[a]]}

\* the list built from category_totals in one of these orders
CategoryEntries(totals) ==
    {[k \in DOMAIN order |-> [category |-> order[k], amount |-> totals[order[k]]]] :
        order \in Descending(totals)}

\* get_category_breakdown: the lists it can return
get_category_breakdown(list) ==
    IF list = <<>> THEN {<<>>}
    ELSE CategoryEntries(CategoryTotals(create_dataframe(list),
                                        DebitRows(create_dataframe(list))))

\* the order of str on the characters of a month key
CharRank(c) == CHOOSE i \in 1..11 : SubSeq("-0123456789", i, i) = c

\* a < b for two strings
RECURSIVE StrLess(_, _)
StrLess(a, b) ==
    IF Len(b) = 0 THEN FALSE
    ELSE IF Len(a) = 0 THEN TRUE
    ELSE IF SubSeq(a, 1, 1) # SubSeq(b, 1, 1)
    THEN CharRank(SubSeq(a, 1, 1)) < CharRank(SubSeq(b, 1, 1))
    ELSE StrLess(SubSeq(a, 2, Len(a)), SubSeq(b, 2, Len(b)))

\* sorted(...) of a set of strings
RECURSIVE SortedStrings(_)
SortedStrings(S) ==
    IF S = {} THEN <<>>
    ELSE LET least == CHOOSE x \in S : \A y \in S \ {x} : StrLess(x, y)
         IN  <<least>> \o SortedStrings(S \ {least})

\* the rows of one month that monthly_category keeps
MonthRows(df, month) == Grouped(df, {j \in DOMAIN df : df[j].month = month})

\* month_data['categories'] with an entry for every category, present in the
\* month or not
ZeroFilledCategories(df, rows) ==
    [category \in {df[j].category : j \in Grouped(df, DOMAIN df)} |->
        [debit |-> SumColumn(df, {j \in rows : df[j].category = category}, "debit"),
         credit |-> SumColumn(df, {j \in rows : df[j].category = category}, "credit")]]

\* month_data['categories']: an entry for each category with a group in the
\* month
MonthCategories(df, rows) ==
    [category \in {df[j].category : j \in rows} |->
        [debit |-> SumColumn(df, {j \in rows : df[j].category = category}, "debit"),
         credit |-> SumColumn(df, {j \in rows : df[j].category = category}, "credit")]]

\* month_data
MonthData(df, month, rows) ==
    [month |-> month,
     total_debit |-> SumColumn(df, rows, "debit"),
     total_credit |-> SumColumn(df, rows, "credit"),
     categories |-> MonthCategories(df, rows)]

MonthlyData(df, months) ==
    [k \in DOMAIN months |-> MonthData(df, months[k], MonthRows(df, months[k]))]

get_monthly_breakdown(list) ==
    IF list = <<>> THEN <<>>
    ELSE MonthlyData(create_dataframe(list),
                     SortedStrings({create_dataframe(list)[j].month :
                                       j \in Grouped(create_dataframe(list), DOMAIN list)}))

\* the keys of groupby(self.df['date'].dt.date) in ascending order
RECURSIVE SortedDates(_)
SortedDates(S) ==
    IF S = {} THEN <<>>
    ELSE LET least == CHOOSE x \in S : \A y \in S : Ordinal(x) <= Ordinal(y)
         IN  <<least>> \o SortedDates(S \ {least})

DailySpent(df, dates) ==
    [k \in DOMAIN dates |->
        [date |-> Strftime(dates[k]),
         amount |-> SumColumn(df, {j \in DebitRows(df) : df[j].date = dates[k]}, "amount")]]

get_daily_heatmap(list) ==
    IF list = <<>> THEN <<>>
    ELSE DailySpent(create_dataframe(list),
                    SortedDates({create_dataframe(list)[j].date :
                                    j \in DebitRows(create_dataframe(list))}))

(***************************************************************************)
(* The analyses of the stored transactions of a user.                      *)
(***************************************************************************)
\* most stored transactions
MaxStat == 3

StatDates == {"2023-12-20", "2024-01-05"}
StatCategories == {"food", "bills"}
StatTypes == {"debit", "credit"}

\* the amount of the k-th stored transaction, in hundredths
StatAmount(k) == <<10050, 20000, 20000, 4950>>[((k - 1) % 4) + 1]

\* the date datetime.now() gives
StatToday == <<2024, 1, 25>>

StatTransaction(id, f) ==
    [Transaction(11, f[1], IF f[2] = "food" THEN "SWIGGY" ELSE "LIC PREMIUM",
                 StatAmount(id), f[3], "sbi") EXCEPT !.id = id, !.category = f[2]]

StatLists(max) ==
    UNION {{[k \in 1..n |-> StatTransaction(k, f[k])] :
                f \in [1..n -> StatDates \X StatCategories \X StatTypes]} :
           n \in 0..max}

InitStats ==
    /\ request = [op |-> "none"]
    /\ outcome = Pending
    /\ categorizer = None
    /\ artifacts = None
    /\ txns \in StatLists(MaxStat)

\* what a call of the analyzer leaves: the operation and what it returned
Returned(op, result) ==
    /\ outcome = Pending
    /\ request' = [op |-> op]
    /\ outcome' = [status |-> "done", result |-> result]

\* FinancialAnalyzer(transactions).get_basic_stats()
GetBasicStats ==
    /\ Returned("get_basic_stats", get_basic_stats(txns))
    /\ UNCHANGED <<categorizer, artifacts, txns>>

\* FinancialAnalyzer(transactions).get_category_breakdown()
GetCategoryBreakdown ==
    /\ \E result \in get_category_breakdown(txns) :
            Returned("get_category_breakdown", result)
    /\ UNCHANGED <<categorizer, artifacts, txns>>

\* FinancialAnalyzer(transactions).get_monthly_breakdown()
GetMonthlyBreakdown ==
    /\ Returned("get_monthly_breakdown", get_monthly_breakdown(txns))
    /\ UNCHANGED <<categorizer, artifacts, txns>>

\* FinancialAnalyzer(transactions).get_daily_heatmap()
GetDailyHeatmap ==
    /\ Returned("get_daily_heatmap", get_daily_heatmap(txns))
    /\ UNCHANGED <<categorizer, artifacts, txns>>

\* FinancialAnalyzer(transactions).identify_recurring_transactions()
GetRecurring ==
    /\ Returned("identify_recurring_transactions",
                identify_recurring_transactions(txns, DefaultMinOccurrences,
                                                DefaultTimeWindowDays))
    /\ txns' = identify_recurring_transactions(txns, DefaultMinOccurrences,
                                                DefaultTimeWindowDays)
    /\ UNCHANGED <<categorizer, artifacts>>

\* FinancialAnalyzer(transactions).detect_anomalies()
GetAnomalies ==
    /\ Returned("detect_anomalies", detect_anomalies(txns, DefaultZThreshold))
    /\ UNCHANGED <<categorizer, artifacts, txns>>

\* FinancialAnalyzer(transactions).project_monthly_spending()
GetProjections ==
    /\ Returned("project_monthly_spending", project_monthly_spending(txns, StatToday))
    /\ UNCHANGED <<categorizer, artifacts, txns>>

NextStats ==
    \/ GetBasicStats
    \/ GetCategoryBreakdown
    \/ GetMonthlyBreakdown
    \/ GetDailyHeatmap
    \/ GetRecurring
    \/ GetAnomalies
    \/ GetProjections

SpecStats == InitStats /\ [][NextStats]_vars

(***************************************************************************)
(* Claims about the aggregates.                                            *)
(***************************************************************************)
Called(op) == Done /\ request.op = op

\* the stored transactions of a type
OfType(type) == {i \in DOMAIN txns : txns[i].transaction_type = type}

\* C12: on a non-empty transaction set get_basic_stats returns
\* total_transactions = the number of transactions, total_debit = the sum of
\* the debit amounts, total_credit = the sum of the credit amounts and
\* net_cashflow = total_credit - total_debit.
C12_BasicStatsTotals ==
    (Called("get_basic_stats") /\ txns # <<>>) =>
        /\ outcome.result.total_transactions = Len(txns)
        /\ outcome.result.total_debit = AmountSum(OfType("debit"))
        /\ outcome.result.total_credit = AmountSum(OfType("credit"))
        /\ outcome.result.net_cashflow =
                AmountSum(OfType("credit")) - AmountSum(OfType("debit"))

\* two debits of 100.50 and 200.00 and a credit of 200.00: net -100.50
C12_Witness ==
    /\ Called("get_basic_stats")
    /\ Len(txns) = 3
    /\ outcome.result.total_debit = 30050
    /\ outcome.result.total_credit = 20000
    /\ outcome.result.net_cashflow = 0 - 10050

\* the stored debits of a category
DebitsOf(category) == {i \in OfType("debit") : txns[i].category = category}

\* C13: get_category_breakdown returns exactly one entry per category that has
\* a debit transaction, its amount the sum of that category's debit amounts
\* (credits add nothing and give no entry), in non-increasing order of amount.
C13_BreakdownPerDebitCategory ==
    Called("get_category_breakdown") =>
        LET r == outcome.result IN
        /\ {r[k].category : k \in DOMAIN r} = {txns[i].category : i \in OfType("debit")}
        /\ \A a, b \in DOMAIN r : a # b => r[a].category # r[b].category
        /\ \A k \in DOMAIN r : r[k].amount = AmountSum(DebitsOf(r[k].category))
        /\ \A k \in DOMAIN r : k > 1 => r[k - 1].amount >= r[k].amount

\* food 200.00 before bills 100.50, while a credit is stored as well
C13_Witness ==
    /\ Called("get_category_breakdown")
    /\ OfType("credit") # {}
    /\ outcome.result = <<[category |-> "food", amount |-> 20000],
                          [category |-> "bills", amount |-> 10050]>>

\* the calendar month of a stored date, as a count of months
MonthNumber(date) == 12 * ToNat(SubSeq(date, 1, 4)) + ToNat(SubSeq(date, 6, 7))

\* the stored transactions of a month key 'YYYY-MM', of a type, of a category
\* (of every category for None)
InMonth(month, type, category) ==
    {i \in OfType(type) :
        /\ SubSeq(txns[i].date, 1, 7) = month
        /\ category # None => txns[i].category = category}

\* C14: get_monthly_breakdown returns one entry per calendar month in which a
\* transaction falls, in ascending order of month; the entry's total_debit and
\* total_credit are the month's debit and credit sums, and its categories are
\* exactly the categories with a transaction in the month, each with the
\* month's debit and credit sums of the category.
C14_MonthlyBreakdown ==
    Called("get_monthly_breakdown") =>
        LET r == outcome.result IN
        /\ {r[k].month : k \in DOMAIN r} = {SubSeq(txns[i].date, 1, 7) : i \in DOMAIN txns}
        /\ \A k \in DOMAIN r : k > 1 => MonthNumber(r[k - 1].month) < MonthNumber(r[k].month)
        /\ \A k \in DOMAIN r :
            /\ r[k].total_debit = AmountSum(InMonth(r[k].month, "debit", None))
            /\ r[k].total_credit = AmountSum(InMonth(r[k].month, "credit", None))
            /\ DOMAIN r[k].categories =
                    {txns[i].category :
                        i \in {j \in DOMAIN txns : SubSeq(txns[j].date, 1, 7) = r[k].month}}
            /\ \A c \in DOMAIN r[k].categories :
                /\ r[k].categories[c].debit = AmountSum(InMonth(r[k].month, "debit", c))
                /\ r[k].categories[c].credit = AmountSum(InMonth(r[k].month, "credit", c))

\* December 2023 before January 2024, food absent from December
C14_Witness ==
    /\ Called("get_monthly_breakdown")
    /\ Len(outcome.result) = 2
    /\ outcome.result[1].month = "2023-12"
    /\ outcome.result[2].month = "2024-01"
    /\ DOMAIN outcome.result[1].categories = {"bills"}
    /\ DOMAIN outcome.result[2].categories = {"food", "bills"}

\* C15: on an empty transaction set get_basic_stats returns five zeros, the
\* operations get_category_breakdown, get_monthly_breakdown, get_daily_heatmap,
\* identify_recurring_transactions and detect_anomalies return an empty list,
\* and project_monthly_spending returns an empty map.
C15_EmptyInput ==
    (Done /\ txns = <<>>) =>
        CASE request.op = "get_basic_stats" ->
                outcome.result = [total_transactions |-> 0, total_debit |-> 0,
                                  total_credit |-> 0, net_cashflow |-> 0,
                                  average_transaction |-> 0]
          [] request.op = "project_monthly_spending" -> DOMAIN outcome.result = {}
          [] request.op \in {"get_category_breakdown", "get_monthly_breakdown",
                             "get_daily_heatmap", "identify_recurring_transactions",
                             "detect_anomalies"} -> Len(outcome.result) = 0

\* the projection of nothing
C15_Witness ==
    /\ Called("project_monthly_spending")
    /\ txns = <<>>
    /\ DOMAIN outcome.result = {}

(***************************************************************************)
(* The stored transactions of a user under the categorizer and the         *)
(* analyzer: categorize and bulk_categorize any number of times, then one  *)
(* analysis.                                                                *)
(***************************************************************************)
InitFrame ==
    /\ request = [op |-> "none"]
    /\ outcome = Pending
    /\ artifacts = NoArtifacts
    /\ categorizer = load_model(NewCategorizer, NoArtifacts)
    /\ txns \in StatLists(MaxStat)

NextFrame ==
    \/ Categorize
    \/ BulkCategorize
    \/ GetBasicStats
    \/ GetCategoryBreakdown
    \/ GetMonthlyBreakdown
    \/ GetDailyHeatmap
    \/ GetRecurring
    \/ GetAnomalies
    \/ GetProjections

SpecFrame == InitFrame /\ [][NextFrame]_vars

\* the analyses other than the recurrence detection
ReadOnlyAnalyses ==
    {"get_basic_stats", "get_category_breakdown", "get_monthly_breakdown",
     "get_daily_heatmap", "detect_anomalies", "project_monthly_spending"}

\* C26: categorize and bulk_categorize change no field of a transaction other
\* than category, and the six analyses other than the recurrence detection
\* change no field of any transaction; so is_recurring is changed by
\* identify_recurring_transactions only.
C26_FrameOfSteps ==
    [][/\ request'.op \in {"categorize", "bulk_categorize"} =>
            /\ DOMAIN txns' = DOMAIN txns
            /\ \A i \in DOMAIN txns :
                    txns'[i] = [txns[i] EXCEPT !.category = txns'[i].category]
       /\ request'.op \in ReadOnlyAnalyses => txns' = txns]_vars

\* bulk_categorize has moved a stored transaction from 'bills' to 'housing'
\* and its other fields are those it was stored with
C26_Witness ==
    /\ request.op = "bulk_categorize"
    /\ Len(txns) = MaxStat
    /\ \E i \in DOMAIN txns :
        /\ txns[i] = [StatTransaction(i, <<"2024-01-05", "bills", "debit">>)
                        EXCEPT !.category = "housing"]

(***************************************************************************)
(* Claims about parse and its caller.                                      *)
(***************************************************************************)
SupportedBank == Lower(request.bank_name) \in {"sbi", "hdfc", "axis"}

HasFile == request.file # NoFile

\* the request names a CSV export of the declared, supported bank
TabularRequest == IsCsvRequest /\ HasFile /\ SupportedBank

FieldOf(i, column) == request.file.csv.rows[i][HeaderOf(Lower(request.bank_name))[column]]

FieldNumeric(s) == s \in NaValues \/ ParseFloat(s).ok

\* row i fails dialect parsing: a date of none of the formats, or an amount
\* field that is not a number
RowFails(i) ==
    \/ ~RowDateValid(i)
    \/ ~FieldNumeric(FieldOf(i, "debit"))
    \/ ~FieldNumeric(FieldOf(i, "credit"))

\* row i is well-formed
RowFine(i) == ~RowFails(i) /\ FieldOf(i, "desc") \notin NaValues

\* C16 (as stated): when a row of a statement fails dialect parsing, the
\* transactions of the well-formed rows before it are preserved and delivered
\* to the caller: parse hands them over, upload saves them.
C16_PartialSuccess ==
    \A i \in 1..MaxRows + 1 :
        (/\ outcome.status \in {"done", "uploaded"}
         /\ TabularRequest
         /\ i <= Len(request.file.csv.rows)
         /\ RowFails(i)
         /\ \A j \in 1..(i - 1) : RowFine(j))
        => IF Done THEN Len(outcome.transactions) >= i - 1 ELSE Len(txns) >= i - 1

\* sub occurs in s
Occurs(sub, s) ==
    \E i \in 1..(Len(s) - Len(sub) + 1) : SubSeq(s, i, i + Len(sub) - 1) = sub

\* C17: parse with a bank name that in lower case is not sbi, hdfc or axis
\* fails with an error naming the three supported banks, for every path and
\* whether or not the path names a file, and returns no transaction.
C17_UnsupportedBank ==
    (Done /\ ~SupportedBank) =>
        /\ Occurs("Unsupported bank", outcome.error)
        /\ \A b \in {"sbi", "hdfc", "axis"} : Occurs(b, outcome.error)
        /\ outcome.transactions = <<>>

\* icici with a .csv path that names no file: the bank is refused, the file
\* is not looked for
C17_Witness ==
    /\ Done
    /\ request.bank_name = "icici"
    /\ request.file_path = "statement.csv"
    /\ request.file = NoFile
    /\ outcome.error = "ValueError: Unsupported bank: icici. Supported banks: sbi, hdfc, axis"

\* the extension of a path: the text from its last '.' on
Extension(path) ==
    IF Positions(path, ".") = <<>> THEN ""
    ELSE SubSeq(path, Positions(path, ".")[Len(Positions(path, "."))], Len(path))

\* the dialect routine of a bank in tabular mode
TabularRoutine(bank) ==
    CASE bank = "sbi"  -> parse_sbi_csv(request.file.csv, request.user_id)
      [] bank = "hdfc" -> parse_hdfc_csv(request.file.csv, request.user_id)
      [] bank = "axis" -> parse_axis_csv(request.file.csv, request.user_id)

\* the dialect routine of a bank in free-text mode
FreeTextRoutine(bank) ==
    CASE bank = "sbi"  -> parse_sbi_pdf(PdfText(request.file.pages), request.user_id)
      [] bank = "hdfc" -> parse_hdfc_pdf(PdfText(request.file.pages), request.user_id)
      [] bank = "axis" -> parse_axis_pdf(PdfText(request.file.pages), request.user_id)

SameResult(r) == outcome.error = r.error /\ outcome.transactions = r.transactions

\* C18: parse with a supported bank fails with the unsupported-format error
\* and no transaction when the extension of the path is neither .pdf nor .csv;
\* a path ending in .csv goes to the routine of the declared bank in tabular
\* mode and one ending in .pdf to that routine in free-text mode.
C18_ExtensionDispatch ==
    (Done /\ SupportedBank) =>
        /\ Extension(request.file_path) \notin {".pdf", ".csv"} =>
                /\ Occurs("Unsupported file format", outcome.error)
                /\ outcome.transactions = <<>>
        /\ (HasFile /\ EndsWith(request.file_path, ".csv")) =>
                SameResult(TabularRoutine(Lower(request.bank_name)))
        /\ (HasFile /\ EndsWith(request.file_path, ".pdf")) =>
                SameResult(FreeTextRoutine(Lower(request.bank_name)))

\* a CSV export declared as 'Hdfc' is read by the hdfc routine
C18_Witness ==
    /\ Done
    /\ request.bank_name = "Hdfc"
    /\ request.file_path = "statement.csv"
    /\ HasFile
    /\ outcome.error = ""
    /\ Len(outcome.transactions) = 1
    /\ outcome.transactions[1].bank = "hdfc"
    /\ outcome.transactions[1].amount = 5000000

\* C19: every transaction parse returns carries the dialect identifier of its
\* routine as bank and the caller's user_id, and has id unset, category unset
\* and is_recurring false.
C19_ParserFields ==
    Done =>
        \A i \in DOMAIN outcome.transactions :
            /\ outcome.transactions[i].bank = Lower(request.bank_name)
            /\ outcome.transactions[i].user_id = request.user_id
            /\ outcome.transactions[i].id = NoId
            /\ outcome.transactions[i].category = None
            /\ outcome.transactions[i].is_recurring = FALSE

\* two rows of an axis export of user 22
C19_Witness ==
    /\ Done
    /\ request.bank_name = "axis"
    /\ request.user_id = 22
    /\ Len(outcome.transactions) = 2
    /\ \A i \in 1..2 : outcome.transactions[i].bank = "axis"
    /\ \A i \in 1..2 : outcome.transactions[i].user_id = 22

\* the text is YYYY-MM-DD and names a day of the calendar
Canonical(date) ==
    /\ Len(date) = 10
    /\ \A k \in {1, 2, 3, 4, 6, 7, 9, 10} : IsDigit(SubSeq(date, k, k))
    /\ \A k \in {5, 8} : SubSeq(date, k, k) = "-"
    /\ ValidDate(ToNat(SubSeq(date, 1, 4)), ToNat(SubSeq(date, 6, 7)),
                 ToNat(SubSeq(date, 9, 10)))

\* the day a date field names when read in the formats of the dialect, <<>>
\* when it is in none of them
FieldDate(s, bank) ==
    IF bank # "axis" THEN Strptime(s, "/")
    ELSE IF Strptime(s, "-") # <<>> THEN Strptime(s, "-")
    ELSE Strptime(s, "/")

\* C20 (as stated): every transaction parse returns has a date in the form
\* YYYY-MM-DD that names a day of the calendar, in tabular mode the day, month
\* and year of the row's date field read in the dialect's formats; and a
\* statement with a date field in none of these formats yields no transaction.
C20_CanonicalDate ==
    (Done /\ outcome.error = "") =>
        /\ \A i \in DOMAIN outcome.transactions : Canonical(outcome.transactions[i].date)
        /\ TabularRequest =>
            \A i \in DOMAIN outcome.transactions :
                /\ FieldDate(FieldOf(i, "date"), Lower(request.bank_name)) # <<>>
                /\ <<ToNat(SubSeq(outcome.transactions[i].date, 1, 4)),
                     ToNat(SubSeq(outcome.transactions[i].date, 6, 7)),
                     ToNat(SubSeq(outcome.transactions[i].date, 9, 10))>>
                        = FieldDate(FieldOf(i, "date"), Lower(request.bank_name))

\* the transaction a record of a page stands for: the amount and the type of
\* the field that is there, the withdrawal when both are
RecordTransaction(bank, l, user_id) ==
    Transaction(user_id, "2023-04-05", "ATM WDL",
                AmountOfText(IF l.first \in {"", "0.00"} THEN l.second ELSE l.first),
                IF l.first \in {"", "0.00"} THEN "credit" ELSE "debit", bank)

RECURSIVE RecordTransactions(_, _, _)
RecordTransactions(bank, ls, user_id) ==
    IF ls = <<>> THEN <<>>
    ELSE (IF Head(ls).layout = "none" THEN <<>>
          ELSE <<RecordTransaction(bank, Head(ls), user_id)>>)
         \o RecordTransactions(bank, Tail(ls), user_id)

\* C21 (as stated): in free-text mode of hdfc and axis a record with a date,
\* a description, one of the two amount fields and a balance yields one
\* transaction, the missing amount counting as zero; a line that is no record
\* yields none and parse does not fail.
C21_OneAmountRecord ==
    \A ls \in SeqsUpTo(SparseRecords, MaxRows) :
        (/\ Done
         /\ request.bank_name \in {"hdfc", "axis"}
         /\ request.file = SparsePdfFile(request.bank_name, ls))
        => /\ outcome.error = ""
           /\ outcome.transactions
                = RecordTransactions(request.bank_name, ls, request.user_id)

=============================================================================
